---- MODULE Spec2Model ----
(***************************************************************************)
(* Portfolio analytics engine of the financial-planner agents              *)
(* (rebalancer, risk analyzer, tax optimizer).                             *)
(*                                                                         *)
(* Number representation.  The Python code computes with floats; the model *)
(* computes with exact integers and exact fractions:                       *)
(*   - percentages are whole percent points unless a comment says          *)
(*     otherwise; a value rounded by round(x, 2) is kept in hundredths;    *)
(*   - dollar inputs are whole dollars; "value * pct / 100" is kept in     *)
(*     cents (value * pct), so the division by 100 is exact;               *)
(*   - a quotient that is not rounded is a fraction <<n, d>> in lowest     *)
(*     terms with d > 0;                                                   *)
(*   - a Python dict is a function whose DOMAIN is its key set; a dict     *)
(*     whose iteration order matters is a sequence of <<key, value>>       *)
(*     pairs in insertion order;                                           *)
(*   - a call that raises is a result record whose field raised names the  *)
(*     exception.                                                          *)
(***************************************************************************)
EXTENDS Integers, Sequences, FiniteSets, Bags, TLC

VARIABLES
    current_allocation,     \* rebalancer input: dict asset class -> percent
    target_allocation,      \* rebalancer input: ordered dict asset class -> percent
    total_portfolio_value,  \* rebalancer input: whole dollars
    threshold,              \* threshold of the latest calculate_rebalancing_trades call
    trades,                 \* outcome of the latest calculate_rebalancing_trades call
    prev_trades,            \* threshold and outcome of the call before the latest
    cost_estimate,          \* outcome of estimate_transaction_costs on trades
    portfolio_data,         \* the portfolio snapshot handed to the analyzers
    allocation,             \* outcome of calculate_current_allocation
    volatility,             \* outcome of calculate_portfolio_volatility
    years,                  \* tax optimizer input: number of years requested
    annual_withdrawal,      \* tax optimizer input: whole dollars per year
    sequencing_plan,        \* outcome of calculate_withdrawal_sequencing
    combined_rate,          \* tax optimizer input: combined tax rate, percent points
    positions_analysis,     \* outcome of calculate_unrealized_gains
    tlh_opportunities,      \* outcome of identify_tax_loss_harvesting
    asset_location,         \* outcome of analyze_asset_location
    concentration,          \* outcome of identify_concentration_risks
    var_args,               \* arguments of calculate_value_at_risk
    var_95,                 \* outcome of calculate_value_at_risk
    first_result,           \* per analyzer: outcome of its first call on the inputs
    last_result,            \* per analyzer: outcome of its latest call on the inputs
    sandbox_files,          \* file tools: the files that exist, as resolved paths
    file_result,            \* file tools: the latest tool call and what it touched
    memory_files,           \* FileMemoryStore: file name -> JSON document stored in it
    saved,                  \* per agent id: what the latest save_* calls were given
    loaded,                 \* FileMemoryStore: the latest load_* or delete_session call
    idea_check,             \* arguments and result of can_generate_idea
    usage,                  \* UsageTracker._usage: user id -> counters and history
    now,                    \* the wall clock, in days since the tracker was created
    requests,               \* POST /api: per request, its inputs and position in idea()
    invocation              \* lambda_handler: the attempts made and the response

rebalancer_vars ==
    <<current_allocation, target_allocation, total_portfolio_value,
      threshold, trades, prev_trades, cost_estimate>>

portfolio_vars == <<portfolio_data, allocation, volatility>>

withdrawal_vars == <<years, annual_withdrawal, sequencing_plan>>

tax_vars == <<combined_rate, positions_analysis, tlh_opportunities, asset_location>>

risk_vars == <<concentration, var_args, var_95>>

engine_vars == <<first_result, last_result>>

analysis_vars == <<tax_vars, risk_vars, engine_vars>>

agents_vars == <<sandbox_files, file_result, memory_files, saved, loaded>>

saas_vars == <<idea_check, usage, now, requests>>

platform_vars == <<agents_vars, saas_vars, invocation>>

vars == <<rebalancer_vars, portfolio_vars, withdrawal_vars, analysis_vars, platform_vars>>

(***************************************************************************)
(* Bounds of the explored inputs.                                          *)
(***************************************************************************)
MaxPct == 2
MaxThreshold == 2
MaxTotalValue == 1
MaxCostPerTrade == 1
MaxAccounts == 2
MaxPositions == 2
MaxQuantity == 1
MaxCash == 1
MaxYears == 12
MaxNegativeYears == 2
MaxWithdrawal == 2
MaxHoldings == 12
MaxCalls == 3
MaxDepth == 2
MaxFileCalls == 2
MaxTodos == 1
MaxOver == 1
MaxMonths == 2
MaxIdeas == 3
MaxRequests == 4
MaxApiTick == 2

(***************************************************************************)
(* Arithmetic helpers.                                                     *)
(***************************************************************************)
Abs(x) == IF x < 0 THEN -x ELSE x

RECURSIVE GCD(_, _)
GCD(a, b) == IF b = 0 THEN a ELSE GCD(b, a % b)

\* the exact quotient n / d (d > 0) in lowest terms
Ratio(n, d) == LET g == GCD(Abs(n), d) IN <<n \div g, d \div g>>

RatioLess(a, b) == a[1] * b[2] < b[1] * a[2]

\* Python round(): n / d (n >= 0, d > 0) rounded to the nearest integer, ties to even
RoundDivNat(n, d) ==
    LET q == n \div d
        r == n % d
    IN  IF 2 * r < d THEN q
        ELSE IF 2 * r > d THEN q + 1
        ELSE IF q % 2 = 0 THEN q ELSE q + 1

RoundDiv(n, d) == IF n < 0 THEN -RoundDivNat(-n, d) ELSE RoundDivNat(n, d)

\* dict.get(key, default)
DictGet(dict, key, default) == IF key \in DOMAIN dict THEN dict[key] ELSE default

RECURSIVE SumSeq(_)
SumSeq(s) == IF s = <<>> THEN 0 ELSE Head(s) + SumSeq(Tail(s))

(***************************************************************************)
(* Rebalancer: calculate_rebalancing_trades.                               *)
(***************************************************************************)
DefaultThreshold == 5

\* drift = current_pct - target_pct, current_pct defaulting to 0
Drift(current, asset_class, target_pct) ==
    DictGet(current, asset_class, 0) - target_pct

ExceedsThresholdInverted(drift, thr) == Abs(drift) <= thr

\* if abs(drift) >= threshold
ExceedsThreshold(drift, thr) == Abs(drift) >= thr

TradeActionFlipped(drift) == IF drift > 0 THEN "buy" ELSE "sell"

\* action = "sell" if drift > 0 else "buy"
TradeAction(drift) == IF drift > 0 THEN "sell" ELSE "buy"

\* abs((total_portfolio_value * drift) / 100), in cents
TradeAmount(total, drift) == Abs(total * drift)

\* abs(drift) / threshold; Python raises ZeroDivisionError for threshold 0
TradePriority(drift, thr) ==
    IF thr = 0
    THEN [raised |-> "ZeroDivisionError", value |-> <<0, 1>>]
    ELSE [raised |-> "none", value |-> Ratio(Abs(drift), thr)]

\* one iteration of the loop over target_allocation.items(); acc is the
\* outcome so far, and an exception raised earlier has ended the call
TradeLoopBody(acc, current, asset_class, target_pct, total, thr) ==
    LET current_pct == DictGet(current, asset_class, 0)
        drift == Drift(current, asset_class, target_pct)
        priority == TradePriority(drift, thr)
    IN  IF acc.raised # "none" THEN acc
        ELSE IF ~ExceedsThreshold(drift, thr) THEN acc
        ELSE IF priority.raised # "none"
        THEN [raised |-> priority.raised, trades |-> <<>>]
        ELSE [raised |-> "none",
              trades |-> Append(acc.trades,
                  [asset_class |-> asset_class,
                   action |-> TradeAction(drift),
                   amount |-> TradeAmount(total, drift),
                   current_pct |-> current_pct,
                   target_pct |-> target_pct,
                   drift_pct |-> drift,
                   priority |-> priority.value])]

RECURSIVE TradeLoop(_, _, _, _, _, _)
TradeLoop(acc, current, target, total, thr, i) ==
    IF i > Len(target) THEN acc
    ELSE TradeLoop(
            TradeLoopBody(acc, current, target[i][1], target[i][2], total, thr),
            current, target, total, thr, i + 1)

\* insert trade t behind every trade of s whose priority is not smaller:
\* descending order, equal priorities in order of arrival
RECURSIVE InsertByPriority(_, _)
InsertByPriority(s, t) ==
    IF s = <<>> THEN <<t>>
    ELSE IF RatioLess(Head(s).priority, t.priority)
    THEN <<t>> \o s
    ELSE <<Head(s)>> \o InsertByPriority(Tail(s), t)

RECURSIVE InsertBeforeEqual(_, _)
InsertBeforeEqual(s, t) ==
    IF s = <<>> THEN <<t>>
    ELSE IF ~RatioLess(t.priority, Head(s).priority)
    THEN <<t>> \o s
    ELSE <<Head(s)>> \o InsertBeforeEqual(Tail(s), t)

RECURSIVE SortReversingTies(_)
SortReversingTies(s) ==
    IF s = <<>> THEN <<>>
    ELSE InsertBeforeEqual(SortReversingTies(SubSeq(s, 1, Len(s) - 1)), s[Len(s)])

\* trades.sort(key=lambda x: x["priority"], reverse=True): a stable sort
RECURSIVE SortByPriority(_)
SortByPriority(s) ==
    IF s = <<>> THEN <<>>
    ELSE InsertByPriority(SortByPriority(SubSeq(s, 1, Len(s) - 1)), s[Len(s)])

calculate_rebalancing_trades(current, target, total, thr) ==
    LET looped == TradeLoop([raised |-> "none", trades |-> <<>>],
                            current, target, total, thr, 1)
    IN  IF looped.raised # "none" THEN looped
        ELSE [raised |-> "none", trades |-> SortByPriority(looped.trades)]

(***************************************************************************)
(* Rebalancer: estimate_transaction_costs.  Amounts and costs in cents;    *)
(* cost_percentage, rounded by round(x, 4), in ten-thousandths of a        *)
(* percent.                                                                *)
(***************************************************************************)
VolumeOfFirstTrade(trade_list) ==
    IF trade_list = <<>> THEN 0 ELSE Head(trade_list).amount

RECURSIVE TotalVolume(_)
\* sum(trade["amount"] for trade in trades)
TotalVolume(trade_list) ==
    IF trade_list = <<>> THEN 0
    ELSE Head(trade_list).amount + TotalVolume(Tail(trade_list))

estimate_transaction_costs(trade_list, cost_per_trade) ==
    LET total_trades == Len(trade_list)
        total_transaction_cost == total_trades * cost_per_trade
        total_volume == TotalVolume(trade_list)
    IN  [raised |-> "none",
         number_of_trades |-> total_trades,
         total_transaction_cost |-> total_transaction_cost,
         total_volume |-> total_volume,
         cost_percentage |->
            IF total_volume > 0
            THEN RoundDiv(total_transaction_cost * 1000000, total_volume)
            ELSE 0]

(***************************************************************************)
(* Rebalancer inputs.                                                      *)
(***************************************************************************)
GenericClasses == {"equity", "bonds", "cash"}
CurrentClasses == {"equity", "bonds"}
Pcts == 0 .. MaxPct
Thresholds == (0 .. MaxThreshold) \cup {DefaultThreshold}

\* ordered dicts: sequences of <<key, value>> with pairwise distinct keys
OrderedDicts(keys, values) ==
    { s \in UNION { [1 .. n -> keys \X values] : n \in 0 .. Cardinality(keys) } :
        \A i, j \in DOMAIN s : i # j => s[i][1] # s[j][1] }

Dicts(keys, values) == UNION { [ks -> values] : ks \in SUBSET keys }

ExampleTarget ==
    << <<"equity", 60>>, <<"bonds", 30>>, <<"real_estate", 5>>,
       <<"commodities", 0>>, <<"cash", 5>> >>

ExampleCurrent ==
    [equity |-> 70, bonds |-> 20, real_estate |-> 5, commodities |-> 0, cash |-> 5]

RebalancerInputs ==
    { [current |-> c, target |-> t, total |-> v] :
        c \in Dicts(CurrentClasses, Pcts),
        t \in OrderedDicts(GenericClasses, Pcts),
        v \in {0, MaxTotalValue} }
    \cup { [current |-> ExampleCurrent, target |-> ExampleTarget,
            total |-> 100000] }

NotCalled == [called |-> FALSE, raised |-> "none", trades |-> <<>>]
NoPrevious == [called |-> FALSE, threshold |-> 0, raised |-> "none", classes |-> {}]
NoEstimate == [called |-> FALSE]

TradedClasses(outcome) == { outcome.trades[i].asset_class : i \in DOMAIN outcome.trades }

AllocationNotCalled == [called |-> FALSE]
VolatilityNotCalled == [called |-> FALSE]

PortfolioIdle ==
    /\ portfolio_data = <<>>
    /\ allocation = AllocationNotCalled
    /\ volatility = VolatilityNotCalled

PlanNotCalled == [called |-> FALSE]

WithdrawalIdle ==
    /\ years = 0
    /\ annual_withdrawal = 0
    /\ sequencing_plan = PlanNotCalled

GainsNotCalled == [called |-> FALSE]
HarvestingNotCalled == [called |-> FALSE]
LocationNotCalled == [called |-> FALSE]

TaxIdle ==
    /\ combined_rate = 0
    /\ positions_analysis = GainsNotCalled
    /\ tlh_opportunities = HarvestingNotCalled
    /\ asset_location = LocationNotCalled

ConcentrationNotCalled == [called |-> FALSE]
VarNotCalled == [called |-> FALSE]

RiskIdle ==
    /\ concentration = ConcentrationNotCalled
    /\ var_args = <<>>
    /\ var_95 = VarNotCalled

EngineIdle ==
    /\ first_result = <<>>
    /\ last_result = <<>>

AgentsIdle ==
    /\ sandbox_files = {}
    /\ file_result = <<>>
    /\ memory_files = <<>>
    /\ saved = <<>>
    /\ loaded = <<>>

SaasIdle ==
    /\ idea_check = <<>>
    /\ usage = <<>>
    /\ now = 0
    /\ requests = <<>>

PlatformIdle == AgentsIdle /\ SaasIdle /\ invocation = <<>>

AnalysisIdle == TaxIdle /\ RiskIdle /\ EngineIdle /\ PlatformIdle

InitRebalancer ==
    /\ \E inp \in RebalancerInputs :
          /\ current_allocation = inp.current
          /\ target_allocation = inp.target
          /\ total_portfolio_value = inp.total
    /\ threshold = DefaultThreshold
    /\ trades = NotCalled
    /\ prev_trades = NoPrevious
    /\ cost_estimate = NoEstimate
    /\ PortfolioIdle
    /\ WithdrawalIdle
    /\ AnalysisIdle

\* create_agent (or a test) calls calculate_rebalancing_trades with threshold t
CalculateRebalancingTrades(t) ==
    /\ threshold' = t
    /\ trades' = [called |-> TRUE] @@
                 calculate_rebalancing_trades(current_allocation, target_allocation,
                                              total_portfolio_value, t)
    /\ prev_trades' = [called |-> trades.called, threshold |-> threshold,
                       raised |-> trades.raised, classes |-> TradedClasses(trades)]
    /\ cost_estimate' = NoEstimate
    /\ UNCHANGED <<current_allocation, target_allocation, total_portfolio_value>>
    /\ UNCHANGED <<portfolio_vars, withdrawal_vars, analysis_vars, platform_vars>>

\* estimate_transaction_costs on the list the latest call returned
EstimateTransactionCosts(c) ==
    /\ trades.called
    /\ trades.raised = "none"
    /\ cost_estimate = NoEstimate
    /\ cost_estimate' = [called |-> TRUE, cost_per_trade |-> c] @@
                        estimate_transaction_costs(trades.trades, c)
    /\ UNCHANGED <<current_allocation, target_allocation, total_portfolio_value,
                   threshold, trades, prev_trades>>
    /\ UNCHANGED <<portfolio_vars, withdrawal_vars, analysis_vars, platform_vars>>

NextRebalancer ==
    \/ \E t \in Thresholds : CalculateRebalancingTrades(t)
    \/ \E c \in {0, MaxCostPerTrade} : EstimateTransactionCosts(c)

SpecRebalancer == InitRebalancer /\ [][NextRebalancer]_vars

(***************************************************************************)
(* Portfolio snapshot.  portfolio_data, an account, a position and an      *)
(* instrument are dicts read with .get(key, default); "accounts" and       *)
(* "positions" are lists; allocation_asset_class is an ordered dict.       *)
(***************************************************************************)
DefaultPrice == 100

\* ordered_dict.get(key, default)
ODictGet(od, key, default) ==
    IF \E i \in DOMAIN od : od[i][1] = key
    THEN od[CHOOSE i \in DOMAIN od : od[i][1] = key][2]
    ELSE default

Accounts(data) == DictGet(data, "accounts", <<>>)
PositionsOf(account) == DictGet(account, "positions", <<>>)
CashBalance(account) == DictGet(account, "cash_balance", 0)
Instrument(position) == DictGet(position, "instrument", <<>>)
AssetAllocation(position) ==
    DictGet(Instrument(position), "allocation_asset_class", <<>>)

\* value = quantity * price, price defaulting to 100
PositionValue(position) ==
    DictGet(position, "quantity", 0)
        * DictGet(Instrument(position), "current_price", DefaultPrice)

\* the snapshot's positions in account order, its cash and its total value
RECURSIVE FlattenPositions(_)
FlattenPositions(accounts) ==
    IF accounts = <<>> THEN <<>>
    ELSE PositionsOf(Head(accounts)) \o FlattenPositions(Tail(accounts))

SnapshotPositions(data) == FlattenPositions(Accounts(data))

SnapshotCash(data) ==
    SumSeq([i \in DOMAIN Accounts(data) |-> CashBalance(Accounts(data)[i])])

SnapshotTotal(data) ==
    SnapshotCash(data)
        + SumSeq([i \in DOMAIN SnapshotPositions(data) |->
                     PositionValue(SnapshotPositions(data)[i])])

(***************************************************************************)
(* Rebalancer: calculate_current_allocation.  total_value in dollars,      *)
(* asset_values in cents, returned percentages (round(x, 2)) in hundredths *)
(* of a percent.                                                           *)
(***************************************************************************)
ZeroAssetValues ==
    [equity |-> 0, bonds |-> 0, real_estate |-> 0, commodities |-> 0, cash |-> 0]

ClassifyUnmappedAsCash(acc, position) ==
    LET value == PositionValue(position)
        asset_allocation == AssetAllocation(position)
    IN  [total_value |-> acc.total_value + value,
         asset_values |->
            [acc.asset_values EXCEPT
                !.equity = @ + value * ODictGet(asset_allocation, "equity", 0),
                !.bonds = @ + value * ODictGet(asset_allocation, "fixed_income", 0),
                !.real_estate = @ + value * ODictGet(asset_allocation, "real_estate", 0),
                !.commodities = @ + value * ODictGet(asset_allocation, "commodities", 0),
                !.cash = @ + (IF asset_allocation = <<>> THEN value * 100 ELSE 0)]]

\* the body of the loop over an account's positions
AllocationOfPosition(acc, position) ==
    LET value == PositionValue(position)
        asset_allocation == AssetAllocation(position)
    IN  [total_value |-> acc.total_value + value,
         asset_values |->
            [acc.asset_values EXCEPT
                !.equity = @ + value * ODictGet(asset_allocation, "equity", 0),
                !.bonds = @ + value * ODictGet(asset_allocation, "fixed_income", 0),
                !.real_estate = @ + value * ODictGet(asset_allocation, "real_estate", 0),
                !.commodities = @ + value * ODictGet(asset_allocation, "commodities", 0)]]

RECURSIVE AllocationOfPositions(_, _, _)
AllocationOfPositions(acc, positions, i) ==
    IF i > Len(positions) THEN acc
    ELSE AllocationOfPositions(AllocationOfPosition(acc, positions[i]), positions, i + 1)

CashOnlyInDenominator(acc, account) ==
    LET cash == CashBalance(account)
    IN  AllocationOfPositions(
            [total_value |-> acc.total_value + cash, asset_values |-> acc.asset_values],
            PositionsOf(account), 1)

\* the body of the loop over the accounts
AllocationOfAccount(acc, account) ==
    LET cash == CashBalance(account)
    IN  AllocationOfPositions(
            [total_value |-> acc.total_value + cash,
             asset_values |-> [acc.asset_values EXCEPT !.cash = @ + cash * 100]],
            PositionsOf(account), 1)

RECURSIVE AllocationOfAccounts(_, _, _)
AllocationOfAccounts(acc, accounts, i) ==
    IF i > Len(accounts) THEN acc
    ELSE AllocationOfAccounts(AllocationOfAccount(acc, accounts[i]), accounts, i + 1)

ZeroTotalGuardMissing(total_value) == FALSE

\* if total_value == 0: return asset_values
ZeroTotalGuard(total_value) == total_value = 0

\* round((v / total_value) * 100, 2) for every class; dividing by a zero
\* total raises ZeroDivisionError
ConvertToPercentages(asset_values, total_value) ==
    IF total_value = 0
    THEN [raised |-> "ZeroDivisionError", converted |-> TRUE, values |-> ZeroAssetValues]
    ELSE [raised |-> "none", converted |-> TRUE,
          values |-> [k \in DOMAIN asset_values |->
                         RoundDiv(asset_values[k] * 100, total_value)]]

calculate_current_allocation(data) ==
    LET summed == AllocationOfAccounts(
                      [total_value |-> 0, asset_values |-> ZeroAssetValues],
                      Accounts(data), 1)
    IN  IF ZeroTotalGuard(summed.total_value)
        THEN [raised |-> "none", converted |-> FALSE, values |-> summed.asset_values]
        ELSE ConvertToPercentages(summed.asset_values, summed.total_value)

(***************************************************************************)
(* Snapshots explored.                                                     *)
(***************************************************************************)
Equity100 == << <<"equity", 100>> >>
FixedIncome100 == << <<"fixed_income", 100>> >>
Balanced == << <<"equity", 50>>, <<"fixed_income", 50>> >>
Oversubscribed == << <<"equity", 100>>, <<"fixed_income", 100>> >>
Diversified == << <<"fixed_income", 50>>, <<"real_estate", 25>>, <<"commodities", 25>> >>

AllocationInstruments ==
    { [current_price |-> 1, allocation_asset_class |-> Equity100],
      [current_price |-> 2, allocation_asset_class |-> Diversified],
      [current_price |-> 1, allocation_asset_class |-> Oversubscribed],
      [current_price |-> 0, allocation_asset_class |-> Equity100],
      [current_price |-> 1],
      [allocation_asset_class |-> <<>>] }

PositionsWith(instruments) ==
    { [quantity |-> q, instrument |-> i] : q \in 0 .. MaxQuantity, i \in instruments }

SeqsUpTo(S, n) == UNION { [1 .. k -> S] : k \in 0 .. n }

\* the ways to cut a list of n positions into m consecutive, possibly empty,
\* runs: cut[i] is the number of positions held by the first i accounts
Cuts(n, m) ==
    { cut \in [0 .. m -> 0 .. n] :
        /\ cut[0] = 0
        /\ cut[m] = n
        /\ \A i \in 1 .. m : cut[i - 1] <= cut[i] }

SnapshotOf(ps, cut, cash) ==
    [accounts |->
        [i \in DOMAIN cash |->
            [cash_balance |-> cash[i],
             positions |-> SubSeq(ps, cut[i - 1] + 1, cut[i])]]]

\* portfolio_data is a snapshot of at most MaxAccounts accounts that hold at
\* most MaxPositions of the given positions in all
SnapshotWith(positions) ==
    \E m \in 0 .. MaxAccounts :
        \E ps \in SeqsUpTo(positions, IF m = 0 THEN 0 ELSE MaxPositions) :
            \E cut \in Cuts(Len(ps), m) :
                \E cash \in [1 .. m -> {0, MaxCash}] :
                    portfolio_data = SnapshotOf(ps, cut, cash)

\* snapshots whose dicts lack keys, read through the .get defaults
SparseSnapshots ==
    { <<>>,
      [accounts |-> << <<>> >>],
      [accounts |-> << [cash_balance |-> MaxCash] >>],
      [accounts |-> << [positions |-> << [quantity |-> 1] >>] >>],
      [accounts |-> << [cash_balance |-> MaxCash,
                        positions |-> << [instrument |-> [current_price |-> 1]],
                                         [quantity |-> 1] >>] >>] }

RebalancerIdle ==
    /\ current_allocation = <<>>
    /\ target_allocation = <<>>
    /\ total_portfolio_value = 0
    /\ threshold = DefaultThreshold
    /\ trades = NotCalled
    /\ prev_trades = NoPrevious
    /\ cost_estimate = NoEstimate

InitAllocation ==
    /\ \/ SnapshotWith(PositionsWith(AllocationInstruments))
       \/ portfolio_data \in SparseSnapshots
    /\ allocation = AllocationNotCalled
    /\ volatility = VolatilityNotCalled
    /\ RebalancerIdle
    /\ WithdrawalIdle
    /\ AnalysisIdle

CalculateCurrentAllocation ==
    /\ ~allocation.called
    /\ allocation' = [called |-> TRUE] @@ calculate_current_allocation(portfolio_data)
    /\ UNCHANGED <<portfolio_data, volatility, rebalancer_vars, withdrawal_vars,
                   analysis_vars, platform_vars>>

NextAllocation == CalculateCurrentAllocation

SpecAllocation == InitAllocation /\ [][NextAllocation]_vars

(***************************************************************************)
(* Risk analyzer: calculate_portfolio_volatility.  The volatility          *)
(* constants are in percent (0.18 is 18), weighted_variance is an exact    *)
(* fraction in percent squared, and the returned value (round(x, 2) of the *)
(* percentage) is in hundredths of a percent.                              *)
(***************************************************************************)
volatilities == [equity |-> 18, bonds |-> 5, real_estate |-> 12, commodities |-> 20, cash |-> 1]

RatioAdd(a, b) == Ratio(a[1] * b[2] + b[1] * a[2], a[2] * b[2])

RatioSquare(a) == <<a[1] * a[1], a[2] * a[2]>>

\* asset_class.replace('fixed_income', 'bonds')
ReplaceFixedIncome(asset_class) ==
    IF asset_class = "fixed_income" THEN "bonds" ELSE asset_class

\* if asset_class in volatilities
InVolatilities(asset_class) == asset_class \in DOMAIN volatilities

\* weight = (value * pct / 100) / total_value if total_value > 0 else 0,
\* with total_value the running total at this point of the loop
Weight(value, pct, total_value) ==
    IF total_value > 0 THEN Ratio(value * pct, 100 * total_value) ELSE <<0, 1>>

\* the body of the loop over asset_allocation.items(): what one entry adds
\* to weighted_variance
VarianceOfEntry(asset_class, pct, value, total_value) ==
    IF InVolatilities(asset_class)
    THEN LET weight == Weight(value, pct, total_value)
             vol == volatilities[ReplaceFixedIncome(asset_class)]
         IN  RatioSquare(Ratio(weight[1] * vol, weight[2]))
    ELSE <<0, 1>>

RECURSIVE VarianceOfEntries(_, _, _, _)
VarianceOfEntries(acc, asset_allocation, value, i) ==
    IF i > Len(asset_allocation) THEN acc
    ELSE LET asset_class == asset_allocation[i][1]
             pct == asset_allocation[i][2]
             added == VarianceOfEntry(asset_class, pct, value, acc.total_value)
         IN  VarianceOfEntries(
                 [acc EXCEPT
                     !.weighted_variance = RatioAdd(@, added),
                     !.entries = Append(@,
                         [asset_class |-> asset_class, pct |-> pct, value |-> value,
                          total_value |-> acc.total_value, added |-> added])],
                 asset_allocation, value, i + 1)

\* the body of the loop over an account's positions
VarianceOfPosition(acc, position) ==
    LET value == PositionValue(position)
    IN  VarianceOfEntries([acc EXCEPT !.total_value = @ + value],
                          AssetAllocation(position), value, 1)

RECURSIVE VarianceOfPositions(_, _, _)
VarianceOfPositions(acc, positions, i) ==
    IF i > Len(positions) THEN acc
    ELSE VarianceOfPositions(VarianceOfPosition(acc, positions[i]), positions, i + 1)

\* the body of the loop over the accounts; cash adds cash * 0.01 ** 2
VarianceOfAccount(acc, account) ==
    LET cash == CashBalance(account)
    IN  VarianceOfPositions(
            [acc EXCEPT
                !.total_value = @ + cash,
                !.weighted_variance =
                    RatioAdd(@, <<cash * volatilities.cash * volatilities.cash, 1>>)],
            PositionsOf(account), 1)

RECURSIVE VarianceOfAccounts(_, _, _)
VarianceOfAccounts(acc, accounts, i) ==
    IF i > Len(accounts) THEN acc
    ELSE VarianceOfAccounts(VarianceOfAccount(acc, accounts[i]), accounts, i + 1)

RECURSIVE ISqrt(_, _, _)
\* the largest s in lo .. hi with s * s <= y
ISqrt(y, lo, hi) ==
    IF lo = hi THEN lo
    ELSE LET mid == (lo + hi + 1) \div 2
         IN  IF mid * mid <= y THEN ISqrt(y, mid, hi) ELSE ISqrt(y, lo, mid - 1)

\* round(math.sqrt(v) * 100, 2) for the fraction v = n / d of percent squared
\* over 10000, in hundredths: sqrt(10000 * n / d) rounded to the nearest
\* integer, ties to even
RoundedSqrt(v) ==
    LET n == v[1]
        d == v[2]
        whole == n \div d
        part == n % d
        q1 == (200 * part) \div d
        r1 == (200 * part) % d
        q2 == (200 * r1) \div d
        r2 == (200 * r1) % d
        \* y = floor(4 * 10000 * n / d)
        y == 40000 * whole + 200 * q1 + q2
        s == ISqrt(y, 0, 46340)
        k == (s - 1) \div 2
    IN  IF r2 = 0 /\ s * s = y /\ s % 2 = 1
        THEN IF k % 2 = 0 THEN k ELSE k + 1
        ELSE (s + 1) \div 2

\* the result, with the weighted_variance it was taken from and the trace of
\* what each asset-class entry added
calculate_portfolio_volatility(data) ==
    LET summed == VarianceOfAccounts(
                      [total_value |-> 0, weighted_variance |-> <<0, 1>>, entries |-> <<>>],
                      Accounts(data), 1)
    IN  [raised |-> "none",
         value |-> IF summed.weighted_variance[1] > 0
                   THEN RoundedSqrt(summed.weighted_variance)
                   ELSE 0,
         weighted_variance |-> summed.weighted_variance,
         entries |-> summed.entries]

Bonds100 == << <<"bonds", 100>> >>
EquityAndCash == << <<"equity", 50>>, <<"cash", 50>> >>

VolatilityInstruments ==
    { [current_price |-> 1, allocation_asset_class |-> Equity100],
      [current_price |-> 2, allocation_asset_class |-> Equity100],
      [current_price |-> 1, allocation_asset_class |-> FixedIncome100],
      [current_price |-> 1, allocation_asset_class |-> Bonds100],
      [current_price |-> 1, allocation_asset_class |-> Balanced],
      [current_price |-> 2, allocation_asset_class |-> EquityAndCash],
      [current_price |-> 0, allocation_asset_class |-> Equity100],
      [current_price |-> 1] }

InitVolatility ==
    /\ SnapshotWith(PositionsWith(VolatilityInstruments))
    /\ allocation = AllocationNotCalled
    /\ volatility = VolatilityNotCalled
    /\ RebalancerIdle
    /\ WithdrawalIdle
    /\ AnalysisIdle

CalculatePortfolioVolatility ==
    /\ ~volatility.called
    /\ volatility' = [called |-> TRUE] @@ calculate_portfolio_volatility(portfolio_data)
    /\ UNCHANGED <<portfolio_data, allocation, rebalancer_vars, withdrawal_vars,
                   analysis_vars, platform_vars>>

NextVolatility == CalculatePortfolioVolatility

SpecVolatility == InitVolatility /\ [][NextVolatility]_vars

(***************************************************************************)
(* Tax optimizer: calculate_withdrawal_sequencing.  Tax rates in           *)
(* hundredths (0.15 is 15), estimated_tax and net_amount (round(x, 2)) in  *)
(* cents.                                                                  *)
(***************************************************************************)
Min(a, b) == IF a < b THEN a ELSE b
Max(a, b) == IF a > b THEN a ELSE b

\* range(1, min(years + 1, 11)) as the list of its elements
YearRange(n) ==
    LET stop == Min(n + 1, 11)
    IN  [i \in 1 .. Max(stop - 1, 0) |-> i]

FirstPhaseEndsEarly(year) == year < 5

\* if year <= 5
FirstPhase(year) == year <= 5

\* f"{tax_rate * 100:.0f}%"
FormatTaxRate(tax_rate) == ToString(tax_rate) \o "%"

\* the body of the loop over the years
YearPlan(year, withdrawal) ==
    LET source == IF FirstPhase(year) THEN "Taxable accounts"
                  ELSE "Tax-deferred accounts (IRA/401k)"
        tax_rate == IF FirstPhase(year) THEN 15 ELSE 22
        tax_on_withdrawal == withdrawal * tax_rate
        net_withdrawal == withdrawal * 100 - tax_on_withdrawal
    IN  [year |-> year,
         withdrawal_amount |-> withdrawal,
         source |-> source,
         estimated_tax |-> tax_on_withdrawal,
         net_amount |-> net_withdrawal,
         tax_rate |-> FormatTaxRate(tax_rate)]

\* a plan whose length grows with the number of analyzer results kept so far
PlanGrowingWithCalls(data, withdrawal, n) ==
    LET kept == Cardinality({a \in DOMAIN last_result : last_result[a].calls > 0})
    IN  [i \in DOMAIN YearRange(n + kept) |-> YearPlan(YearRange(n + kept)[i], withdrawal)]

calculate_withdrawal_sequencing(data, withdrawal, n) ==
    [i \in DOMAIN YearRange(n) |-> YearPlan(YearRange(n)[i], withdrawal)]

InitWithdrawal ==
    /\ portfolio_data \in SparseSnapshots
    /\ allocation = AllocationNotCalled
    /\ volatility = VolatilityNotCalled
    /\ years \in -MaxNegativeYears .. MaxYears
    /\ annual_withdrawal \in 0 .. MaxWithdrawal
    /\ sequencing_plan = PlanNotCalled
    /\ RebalancerIdle
    /\ AnalysisIdle

CalculateWithdrawalSequencing ==
    /\ ~sequencing_plan.called
    /\ sequencing_plan' =
          [called |-> TRUE,
           plan |-> calculate_withdrawal_sequencing(portfolio_data, annual_withdrawal, years)]
    /\ UNCHANGED <<portfolio_vars, rebalancer_vars, years, annual_withdrawal,
                   analysis_vars, platform_vars>>

NextWithdrawal == CalculateWithdrawalSequencing

SpecWithdrawal == InitWithdrawal /\ [][NextWithdrawal]_vars

(***************************************************************************)
(* Tax optimizer: calculate_unrealized_gains, identify_tax_loss_harvesting *)
(* and analyze_asset_location.  In this part cost_basis, current_price and *)
(* every dollar amount are in cents; gain_percentage (round(x, 2)) is in   *)
(* hundredths of a percent; the tax rate is in percent points (0.29 is     *)
(* 29); the asset-location buckets, before rounding, are in hundredths of  *)
(* a cent (market_value in cents x pct).                                   *)
(***************************************************************************)
TopN == 10

AccountTypeAlwaysDefault(account) == "taxable"

\* account.get("account_type", "taxable")
AccountType(account) == DictGet(account, "account_type", "taxable")

\* the body of the loop over an account's positions: the appended entry
UnrealizedGainOf(account_type, position) ==
    LET quantity == DictGet(position, "quantity", 0)
        cost_basis == DictGet(position, "cost_basis", 0)
        instrument == Instrument(position)
        current_price == DictGet(instrument, "current_price", DefaultPrice * 100)
        market_value == quantity * current_price
        total_cost == quantity * cost_basis
        unrealized_gain == market_value - total_cost
        gain_percentage == IF total_cost > 0
                           THEN RoundDiv(unrealized_gain * 10000, total_cost)
                           ELSE 0
    IN  [symbol |-> DictGet(position, "symbol", ""),
         account_type |-> account_type,
         quantity |-> quantity,
         cost_basis |-> cost_basis,
         current_price |-> current_price,
         market_value |-> market_value,
         unrealized_gain |-> unrealized_gain,
         gain_percentage |-> gain_percentage,
         instrument |-> instrument]

\* the entries one account appends, in position order
GainsOfAccount(account) ==
    [i \in DOMAIN PositionsOf(account) |->
        UnrealizedGainOf(AccountType(account), PositionsOf(account)[i])]

RECURSIVE GainsOfAccounts(_)
GainsOfAccounts(accounts) ==
    IF accounts = <<>> THEN <<>>
    ELSE GainsOfAccount(Head(accounts)) \o GainsOfAccounts(Tail(accounts))

calculate_unrealized_gains(data) == GainsOfAccounts(Accounts(data))

HarvestableInAnyAccount(pos) == pos.unrealized_gain < 0

\* if pos["account_type"] == "taxable" and pos["unrealized_gain"] < 0
Harvestable(pos) == pos.account_type = "taxable" /\ pos.unrealized_gain < 0

\* the body of the loop over positions
HarvestLoopBody(acc, pos) ==
    IF Harvestable(pos)
    THEN LET loss_amount == Abs(pos.unrealized_gain)
         IN  [harvestable_losses |->
                 Append(acc.harvestable_losses,
                     [symbol |-> pos.symbol,
                      loss_amount |-> loss_amount,
                      market_value |-> pos.market_value,
                      gain_percentage |-> pos.gain_percentage]),
              total_harvestable_loss |-> acc.total_harvestable_loss + loss_amount]
    ELSE acc

RECURSIVE HarvestLoop(_, _, _)
HarvestLoop(acc, positions, i) ==
    IF i > Len(positions) THEN acc
    ELSE HarvestLoop(HarvestLoopBody(acc, positions[i]), positions, i + 1)

\* insert entry t behind every entry of s whose loss is not smaller
RECURSIVE InsertByLoss(_, _)
InsertByLoss(s, t) ==
    IF s = <<>> THEN <<t>>
    ELSE IF Head(s).loss_amount < t.loss_amount
    THEN <<t>> \o s
    ELSE <<Head(s)>> \o InsertByLoss(Tail(s), t)

RECURSIVE SortByLoss(_)
\* harvestable_losses.sort(key=lambda x: x["loss_amount"], reverse=True)
SortByLoss(s) ==
    IF s = <<>> THEN <<>>
    ELSE InsertByLoss(SortByLoss(SubSeq(s, 1, Len(s) - 1)), s[Len(s)])

WholeList(s) == s

\* s[:10]
TopTen(s) == SubSeq(s, 1, Min(Len(s), TopN))

identify_tax_loss_harvesting(positions, rate) ==
    LET looped == HarvestLoop([harvestable_losses |-> <<>>, total_harvestable_loss |-> 0],
                              positions, 1)
        potential_tax_savings == looped.total_harvestable_loss * rate
        sorted == SortByLoss(looped.harvestable_losses)
    IN  [harvestable_positions |-> TopTen(sorted),
         total_harvestable_loss |-> looped.total_harvestable_loss,
         potential_tax_savings |-> RoundDiv(potential_tax_savings, 100),
         number_of_positions |-> Len(sorted)]

\* buckets that start with a cent in each
OneCentBuckets == [equity |-> 100, bonds |-> 100, reits |-> 100]

ZeroBuckets == [equity |-> 0, bonds |-> 0, reits |-> 0]

TaxableIgnoringCase(account_type) == account_type \in {"taxable", "Taxable"}

\* if account_type == "taxable"
IsTaxable(account_type) == account_type = "taxable"

\* what one position adds to a bucket map
AddToBuckets(buckets, pos) ==
    LET market_value == pos.market_value
        asset_allocation == DictGet(pos.instrument, "allocation_asset_class", <<>>)
        equity_pct == ODictGet(asset_allocation, "equity", 0)
        bonds_pct == ODictGet(asset_allocation, "fixed_income", 0)
        reits_pct == ODictGet(asset_allocation, "real_estate", 0)
    IN  [equity |-> buckets.equity + market_value * equity_pct,
         bonds |-> buckets.bonds + market_value * bonds_pct,
         reits |-> buckets.reits + market_value * reits_pct]

\* the body of the loop over positions
LocationLoopBody(acc, pos) ==
    IF IsTaxable(pos.account_type)
    THEN [acc EXCEPT !.taxable_accounts = AddToBuckets(@, pos)]
    ELSE [acc EXCEPT !.tax_deferred_accounts = AddToBuckets(@, pos)]

RECURSIVE LocationLoop(_, _, _)
LocationLoop(acc, positions, i) ==
    IF i > Len(positions) THEN acc
    ELSE LocationLoop(LocationLoopBody(acc, positions[i]), positions, i + 1)

\* {k: round(v, 2) for k, v in buckets.items()}
RoundBuckets(buckets) == [k \in DOMAIN buckets |-> RoundDiv(buckets[k], 100)]

analyze_asset_location(data, positions) ==
    LET looped == LocationLoop([taxable_accounts |-> ZeroBuckets,
                                tax_deferred_accounts |-> ZeroBuckets],
                               positions, 1)
        taxable == looped.taxable_accounts
    IN  [taxable_accounts |-> RoundBuckets(taxable),
         tax_deferred_accounts |-> RoundBuckets(looped.tax_deferred_accounts),
         inefficiencies |->
            [bonds_in_taxable |-> RoundDiv(taxable.bonds, 100),
             reits_in_taxable |-> RoundDiv(taxable.reits, 100),
             total_inefficient |-> RoundDiv(taxable.bonds + taxable.reits, 100)]]

(***************************************************************************)
(* Tax optimizer inputs and calls (create_agent calls the three functions  *)
(* in this order of dependency: the gains list feeds the other two).       *)
(***************************************************************************)
DefaultTaxBracket == 24
DefaultStateTax == 5

TaxRates == {0, DefaultTaxBracket + DefaultStateTax}

AccountTypes == {"taxable", "Taxable", "roth_ira"}

RealEstate100 == << <<"real_estate", 100>> >>
TaxInefficientMix == << <<"fixed_income", 40>>, <<"real_estate", 40>>, <<"equity", 20>> >>

\* the position of the documented example: 50 units bought at 200, now at 220
ExamplePosition ==
    [quantity |-> 50, cost_basis |-> 200 * 100,
     instrument |-> [current_price |-> 220 * 100, allocation_asset_class |-> Equity100]]

TaxPositions ==
    { [quantity |-> 1, cost_basis |-> 3,
       instrument |-> [current_price |-> 1, allocation_asset_class |-> TaxInefficientMix]],
      [quantity |-> 1, cost_basis |-> 3,
       instrument |-> [current_price |-> 2, allocation_asset_class |-> FixedIncome100]] }
    \cup { [quantity |-> 1, cost_basis |-> 1,
            instrument |-> [current_price |-> 2, allocation_asset_class |-> Equity100]],
           [quantity |-> 1, cost_basis |-> 1,
            instrument |-> [current_price |-> 1, allocation_asset_class |-> RealEstate100]],
           [quantity |-> 0, cost_basis |-> 3,
            instrument |-> [current_price |-> 1, allocation_asset_class |-> Equity100]],
           [quantity |-> 1],
           ExamplePosition }

Symbol(i) == "P" \o ToString(i)

\* the positions with symbols P1, P2, ... in list order
Labelled(ps) == [i \in DOMAIN ps |-> [symbol |-> Symbol(i)] @@ ps[i]]

TypedSnapshotOf(ps, cut, types) ==
    [accounts |->
        [i \in DOMAIN types |->
            [account_type |-> types[i],
             positions |-> SubSeq(Labelled(ps), cut[i - 1] + 1, cut[i])]]]

\* n positions repeating the pattern base
Cycled(base, n) == [i \in 1 .. n |-> base[((i - 1) % Len(base)) + 1]]

\* portfolio_data is a snapshot of one or two typed accounts that hold at
\* most MaxPositions of the given positions in all
TypedSnapshotWith(positions) ==
    \E m \in 1 .. Min(MaxAccounts, 2) :
        \E ps \in SeqsUpTo(positions, MaxPositions) :
            \E cut \in Cuts(Len(ps), m) :
                \E types \in [1 .. m -> AccountTypes] :
                    portfolio_data = TypedSnapshotOf(ps, cut, types)

\* portfolio_data is a taxable account followed by a retirement account,
\* holding TopN - 1 to MaxHoldings positions that repeat a short pattern
LongTypedSnapshotWith(positions) ==
    \E base \in SeqsUpTo(positions, MaxPositions) \ {<<>>} :
        \E n \in TopN - 1 .. MaxHoldings :
            \E k \in 0 .. 1 :
                portfolio_data =
                    TypedSnapshotOf(Cycled(base, n),
                                    [i \in 0 .. 2 |-> CASE i = 0 -> 0
                                                        [] i = 1 -> n - k
                                                        [] OTHER -> n],
                                    <<"taxable", "roth_ira">>)

InitTax ==
    /\ \/ TypedSnapshotWith(TaxPositions)
       \/ LongTypedSnapshotWith(TaxPositions)
       \/ portfolio_data \in SparseSnapshots
    /\ allocation = AllocationNotCalled
    /\ volatility = VolatilityNotCalled
    /\ TaxIdle
    /\ RiskIdle
    /\ EngineIdle
    /\ PlatformIdle
    /\ RebalancerIdle
    /\ WithdrawalIdle

\* positions = calculate_unrealized_gains(portfolio_data)
CalculateUnrealizedGains ==
    /\ ~positions_analysis.called
    /\ positions_analysis' =
          [called |-> TRUE, positions |-> calculate_unrealized_gains(portfolio_data)]
    /\ UNCHANGED <<combined_rate, tlh_opportunities, asset_location>>
    /\ UNCHANGED <<portfolio_vars, rebalancer_vars, withdrawal_vars, risk_vars, engine_vars, platform_vars>>

\* tlh_opportunities = identify_tax_loss_harvesting(positions, combined_rate)
IdentifyTaxLossHarvesting(rate) ==
    /\ positions_analysis.called
    /\ ~tlh_opportunities.called
    /\ combined_rate' = rate
    /\ tlh_opportunities' =
          [called |-> TRUE] @@
          identify_tax_loss_harvesting(positions_analysis.positions, rate)
    /\ UNCHANGED <<positions_analysis, asset_location>>
    /\ UNCHANGED <<portfolio_vars, rebalancer_vars, withdrawal_vars, risk_vars, engine_vars, platform_vars>>

\* asset_location = analyze_asset_location(portfolio_data, positions)
AnalyzeAssetLocation ==
    /\ positions_analysis.called
    /\ ~asset_location.called
    /\ asset_location' =
          [called |-> TRUE] @@
          analyze_asset_location(portfolio_data, positions_analysis.positions)
    /\ UNCHANGED <<combined_rate, positions_analysis, tlh_opportunities>>
    /\ UNCHANGED <<portfolio_vars, rebalancer_vars, withdrawal_vars, risk_vars, engine_vars, platform_vars>>

NextTax ==
    \/ CalculateUnrealizedGains
    \/ \E rate \in TaxRates : IdentifyTaxLossHarvesting(rate)
    \/ AnalyzeAssetLocation

SpecTax == InitTax /\ [][NextTax]_vars

(***************************************************************************)
(* Risk analyzer: identify_concentration_risks.  Position values and       *)
(* total_value in whole dollars, sector and region exposures in cents      *)
(* (value x pct), the returned percentages (round(x, 2)) in hundredths of  *)
(* a percent.  sector_values and region_values are ordered dicts.          *)
(***************************************************************************)
\* od[key] = od.get(key, 0) + amount: a new key goes to the end
AddExposure(od, key, amount) ==
    IF \E i \in DOMAIN od : od[i][1] = key
    THEN [i \in DOMAIN od |-> IF od[i][1] = key THEN <<key, od[i][2] + amount>> ELSE od[i]]
    ELSE Append(od, <<key, amount>>)

\* the loop over sectors.items() (regions.items()) of one position
RECURSIVE AddExposures(_, _, _, _)
AddExposures(od, entries, value, i) ==
    IF i > Len(entries) THEN od
    ELSE AddExposures(AddExposure(od, entries[i][1], value * entries[i][2]),
                      entries, value, i + 1)

\* the body of the loop over an account's positions
ConcentrationOfPosition(acc, position) ==
    LET symbol == DictGet(position, "symbol", "")
        instrument == Instrument(position)
        value == PositionValue(position)
    IN  [total_value |-> acc.total_value + value,
         position_values |->
            Append(acc.position_values,
                   [symbol |-> symbol, value |-> value,
                    name |-> DictGet(instrument, "name", symbol)]),
         sector_values |->
            AddExposures(acc.sector_values,
                         DictGet(instrument, "allocation_sectors", <<>>), value, 1),
         region_values |->
            AddExposures(acc.region_values,
                         DictGet(instrument, "allocation_regions", <<>>), value, 1)]

RECURSIVE ConcentrationOfPositions(_, _, _)
ConcentrationOfPositions(acc, positions, i) ==
    IF i > Len(positions) THEN acc
    ELSE ConcentrationOfPositions(ConcentrationOfPosition(acc, positions[i]),
                                  positions, i + 1)

\* the body of the loop over the accounts
ConcentrationOfAccount(acc, account) ==
    ConcentrationOfPositions([acc EXCEPT !.total_value = @ + CashBalance(account)],
                             PositionsOf(account), 1)

RECURSIVE ConcentrationOfAccounts(_, _, _)
ConcentrationOfAccounts(acc, accounts, i) ==
    IF i > Len(accounts) THEN acc
    ELSE ConcentrationOfAccounts(ConcentrationOfAccount(acc, accounts[i]), accounts, i + 1)

\* insert entry t behind every entry of s whose value is not smaller
RECURSIVE InsertByValue(_, _)
InsertByValue(s, t) ==
    IF s = <<>> THEN <<t>>
    ELSE IF Head(s).value < t.value
    THEN <<t>> \o s
    ELSE <<Head(s)>> \o InsertByValue(Tail(s), t)

RECURSIVE InsertBeforeEqualValue(_, _)
InsertBeforeEqualValue(s, t) ==
    IF s = <<>> THEN <<t>>
    ELSE IF Head(s).value <= t.value
    THEN <<t>> \o s
    ELSE <<Head(s)>> \o InsertBeforeEqualValue(Tail(s), t)

RECURSIVE SortByValueReversingTies(_)
SortByValueReversingTies(s) ==
    IF s = <<>> THEN <<>>
    ELSE InsertBeforeEqualValue(SortByValueReversingTies(SubSeq(s, 1, Len(s) - 1)),
                                s[Len(s)])

RECURSIVE SortByValue(_)
\* position_values.sort(key=lambda x: x["value"], reverse=True)
SortByValue(s) ==
    IF s = <<>> THEN <<>>
    ELSE InsertByValue(SortByValue(SubSeq(s, 1, Len(s) - 1)), s[Len(s)])

RECURSIVE SumOfValues(_)
\* sum(p["value"] for p in ...)
SumOfValues(s) == IF s = <<>> THEN 0 ELSE Head(s).value + SumOfValues(Tail(s))

RECURSIVE LastMaxItem(_, _, _)
LastMaxItem(od, best, i) ==
    IF i > Len(od) THEN best
    ELSE LastMaxItem(od, IF od[i][2] >= best[2] THEN od[i] ELSE best, i + 1)

LastTopExposure(od) == IF od # <<>> THEN LastMaxItem(od, od[1], 2) ELSE <<"None", 0>>

RECURSIVE MaxItem(_, _, _)
\* max(od.items(), key=lambda x: x[1]): the first item of largest value
MaxItem(od, best, i) ==
    IF i > Len(od) THEN best
    ELSE MaxItem(od, IF od[i][2] > best[2] THEN od[i] ELSE best, i + 1)

\* max(...) if od else ("None", 0)
TopExposure(od) == IF od # <<>> THEN MaxItem(od, od[1], 2) ELSE <<"None", 0>>

identify_concentration_risks(data) ==
    LET summed == ConcentrationOfAccounts(
                      [total_value |-> 0, position_values |-> <<>>,
                       sector_values |-> <<>>, region_values |-> <<>>],
                      Accounts(data), 1)
        total_value == summed.total_value
        sorted == SortByValue(summed.position_values)
        top_10_value == SumOfValues(TopTen(sorted))
        top_sector == TopExposure(summed.sector_values)
        top_region == TopExposure(summed.region_values)
    IN  [top_10_holdings |-> TopTen(sorted),
         top_10_concentration_pct |->
            IF total_value > 0 THEN RoundDiv(top_10_value * 10000, total_value) ELSE 0,
         top_sector |-> top_sector[1],
         top_sector_pct |->
            IF total_value > 0 THEN RoundDiv(top_sector[2] * 100, total_value) ELSE 0,
         top_region |-> top_region[1],
         top_region_pct |->
            IF total_value > 0 THEN RoundDiv(top_region[2] * 100, total_value) ELSE 0,
         number_of_positions |-> Len(sorted)]

Technology100 == << <<"technology", 100>> >>
Healthcare100 == << <<"healthcare", 100>> >>
TechnologyAndHealthcare == << <<"technology", 50>>, <<"healthcare", 50>> >>
Energy100 == << <<"energy", 100>> >>
NorthAmerica100 == << <<"north_america", 100>> >>
EuropeAndNorthAmerica == << <<"europe", 50>>, <<"north_america", 50>> >>
Asia100 == << <<"asia", 100>> >>

ConcentrationPositions ==
    { [quantity |-> 1,
       instrument |-> [current_price |-> 1, allocation_sectors |-> Technology100,
                       allocation_regions |-> NorthAmerica100]],
      [quantity |-> 1,
       instrument |-> [current_price |-> 1, allocation_sectors |-> Healthcare100]],
      [quantity |-> MaxQuantity,
       instrument |-> [current_price |-> 2, allocation_sectors |-> TechnologyAndHealthcare,
                       allocation_regions |-> EuropeAndNorthAmerica]],
      [quantity |-> 1,
       instrument |-> [name |-> "Technology Fund", current_price |-> 1,
                       allocation_sectors |-> Technology100]],
      [quantity |-> 0,
       instrument |-> [current_price |-> 1, allocation_sectors |-> Energy100,
                       allocation_regions |-> Asia100]],
      [quantity |-> 1] }

\* portfolio_data is a snapshot of at most MaxAccounts accounts that hold at
\* most MaxPositions of the given positions in all, with symbols P1, P2, ...
LabelledSnapshotWith(positions) ==
    \E m \in 0 .. MaxAccounts :
        \E ps \in SeqsUpTo(positions, IF m = 0 THEN 0 ELSE MaxPositions) :
            \E cut \in Cuts(Len(ps), m) :
                \E cash \in [1 .. m -> {0, MaxCash}] :
                    portfolio_data = SnapshotOf(Labelled(ps), cut, cash)

\* portfolio_data is two accounts holding TopN - 1 to MaxHoldings positions
\* that repeat a short pattern
LongLabelledSnapshotWith(positions) ==
    \E base \in SeqsUpTo(positions, MaxPositions) \ {<<>>} :
        \E n \in TopN - 1 .. MaxHoldings :
            \E k \in 0 .. 1 :
                \E c \in {0, MaxCash} :
                    portfolio_data =
                        SnapshotOf(Labelled(Cycled(base, n)),
                                   [i \in 0 .. 2 |-> CASE i = 0 -> 0
                                                       [] i = 1 -> n - k
                                                       [] OTHER -> n],
                                   <<c, 0>>)

InitConcentration ==
    /\ \/ LabelledSnapshotWith(ConcentrationPositions)
       \/ LongLabelledSnapshotWith(ConcentrationPositions)
       \/ portfolio_data \in SparseSnapshots
    /\ allocation = AllocationNotCalled
    /\ volatility = VolatilityNotCalled
    /\ AnalysisIdle
    /\ RebalancerIdle
    /\ WithdrawalIdle

\* concentration = identify_concentration_risks(portfolio_data)
IdentifyConcentrationRisks ==
    /\ ~concentration.called
    /\ concentration' = [called |-> TRUE] @@ identify_concentration_risks(portfolio_data)
    /\ UNCHANGED <<var_args, var_95>>
    /\ UNCHANGED <<portfolio_vars, rebalancer_vars, withdrawal_vars, tax_vars, engine_vars, platform_vars>>

NextConcentration == IdentifyConcentrationRisks

SpecConcentration == InitConcentration /\ [][NextConcentration]_vars

(***************************************************************************)
(* Risk analyzer: calculate_value_at_risk.  portfolio_value in whole       *)
(* dollars, volatility in hundredths of a percent (the 2-decimal value     *)
(* calculate_portfolio_volatility returns), confidence in ten-thousandths  *)
(* (0.95 is 9500), the z-score in hundredths (1.65 is 165), the returned   *)
(* value (round(x, 2)) in cents.                                           *)
(***************************************************************************)
ZScoreByLevel(confidence) ==
    IF confidence = 9500 THEN 165 ELSE IF confidence = 9900 THEN 233 ELSE 128

\* z_score = 1.65 if confidence == 0.95 else 2.33
ZScore(confidence) == IF confidence = 9500 THEN 165 ELSE 233

\* round(portfolio_value * (volatility / 100) * z_score, 2): in cents,
\* portfolio_value * volatility * z_score / 10000 rounded to the nearest
\* integer; the multiples of 10000 dollars are split off, their part
\* of the quotient being a whole number of cents
calculate_value_at_risk(portfolio_value, vol, confidence) ==
    LET z_score == ZScore(confidence)
    IN  (portfolio_value \div 10000) * vol * z_score
            + RoundDiv((portfolio_value % 10000) * vol * z_score, 10000)

Confidences == {9500, 9501, 9900, 9000}

VarArgs ==
    { [portfolio_value |-> v, volatility |-> vol, confidence |-> c] :
        v \in 0 .. MaxTotalValue + 1, vol \in {0, 1, 100, 2163}, c \in Confidences }
    \cup { [portfolio_value |-> 1000000, volatility |-> vol, confidence |-> c] :
             vol \in {0, 10 * 100}, c \in Confidences }

InitVar ==
    /\ var_args \in VarArgs
    /\ var_95 = VarNotCalled
    /\ concentration = ConcentrationNotCalled
    /\ PortfolioIdle
    /\ TaxIdle
    /\ EngineIdle
    /\ PlatformIdle
    /\ RebalancerIdle
    /\ WithdrawalIdle

\* var_95 = calculate_value_at_risk(total_value, volatility, confidence)
CalculateValueAtRisk ==
    /\ ~var_95.called
    /\ var_95' = [called |-> TRUE,
                  value |-> calculate_value_at_risk(var_args.portfolio_value,
                                                    var_args.volatility,
                                                    var_args.confidence)]
    /\ UNCHANGED <<concentration, var_args>>
    /\ UNCHANGED <<portfolio_vars, rebalancer_vars, withdrawal_vars, tax_vars, engine_vars, platform_vars>>

NextVar == CalculateValueAtRisk

SpecVar == InitVar /\ [][NextVar]_vars

(***************************************************************************)
(* The eight analyzer functions called repeatedly, in any order, on one    *)
(* set of arguments.  No function assigns to a parameter, to an object     *)
(* reachable from a parameter or to a module-level name; each builds its   *)
(* result in local variables.  Every function reads the numbers of the     *)
(* snapshot in the unit of its own part of the model.  last_result[a].at   *)
(* and first_result[a].at number the calls in the order they were made.    *)
(***************************************************************************)
Analyzers ==
    { "calculate_current_allocation", "calculate_rebalancing_trades",
      "calculate_portfolio_volatility", "identify_concentration_risks",
      "calculate_unrealized_gains", "identify_tax_loss_harvesting",
      "analyze_asset_location", "calculate_withdrawal_sequencing" }

NeverCalled == [calls |-> 0, at |-> 0, result |-> <<>>]

\* the number of analyzer calls made so far
TotalCalls ==
    LET RECURSIVE Sum(_)
        Sum(S) == IF S = {} THEN 0
                  ELSE LET a == CHOOSE x \in S : TRUE
                       IN  last_result[a].calls + Sum(S \ {a})
    IN  Sum(Analyzers)

\* the list the latest calculate_unrealized_gains call returned
GainsList == last_result["calculate_unrealized_gains"].result

\* what a call of analyzer a on the arguments returns
AnalyzerResult(a) ==
    CASE a = "calculate_current_allocation" ->
            calculate_current_allocation(portfolio_data)
      [] a = "calculate_rebalancing_trades" ->
            calculate_rebalancing_trades(current_allocation, target_allocation,
                                         total_portfolio_value, threshold)
      [] a = "calculate_portfolio_volatility" ->
            calculate_portfolio_volatility(portfolio_data).value
      [] a = "identify_concentration_risks" ->
            identify_concentration_risks(portfolio_data)
      [] a = "calculate_unrealized_gains" ->
            calculate_unrealized_gains(portfolio_data)
      [] a = "identify_tax_loss_harvesting" ->
            identify_tax_loss_harvesting(GainsList, combined_rate)
      [] a = "analyze_asset_location" ->
            analyze_asset_location(portfolio_data, GainsList)
      [] OTHER ->
            calculate_withdrawal_sequencing(portfolio_data, annual_withdrawal, years)

\* a call of analyzer a: the result is recorded, the arguments are left alone
Call(a) ==
    /\ a \in {"identify_tax_loss_harvesting", "analyze_asset_location"} =>
          last_result["calculate_unrealized_gains"].calls > 0
    /\ last_result' =
          [last_result EXCEPT ![a] = [calls |-> @.calls + 1, at |-> TotalCalls + 1,
                                      result |-> AnalyzerResult(a)]]
    /\ first_result' =
          IF first_result[a].calls = 0
          THEN [first_result EXCEPT ![a] = [calls |-> 1, at |-> TotalCalls + 1,
                                            result |-> AnalyzerResult(a)]]
          ELSE first_result
    /\ UNCHANGED <<portfolio_data, current_allocation, target_allocation,
                   total_portfolio_value, threshold, annual_withdrawal, years,
                   combined_rate>>
    /\ UNCHANGED <<allocation, volatility, trades, prev_trades, cost_estimate,
                   sequencing_plan, positions_analysis, tlh_opportunities,
                   asset_location, risk_vars, platform_vars>>

CallCurrentAllocation ==
    /\ TotalCalls < MaxCalls
    /\ Call("calculate_current_allocation")
CallRebalancingTrades ==
    /\ TotalCalls < MaxCalls
    /\ Call("calculate_rebalancing_trades")
CallPortfolioVolatility ==
    /\ TotalCalls < MaxCalls
    /\ Call("calculate_portfolio_volatility")
CallConcentrationRisks ==
    /\ TotalCalls < MaxCalls
    /\ Call("identify_concentration_risks")
CallUnrealizedGains ==
    /\ TotalCalls < MaxCalls
    /\ Call("calculate_unrealized_gains")
CallTaxLossHarvesting ==
    /\ TotalCalls < MaxCalls
    /\ Call("identify_tax_loss_harvesting")
CallAssetLocation ==
    /\ TotalCalls < MaxCalls
    /\ Call("analyze_asset_location")
CallWithdrawalSequencing ==
    /\ TotalCalls < MaxCalls
    /\ Call("calculate_withdrawal_sequencing")

FullInstrument(asset_allocation, sectors) ==
    [name |-> "Fund", current_price |-> 1, allocation_asset_class |-> asset_allocation,
     allocation_sectors |-> sectors, allocation_regions |-> NorthAmerica100]

\* a snapshot carrying every field some analyzer reads
FullSnapshot ==
    [accounts |->
        << [account_type |-> "taxable", cash_balance |-> MaxCash,
            positions |->
                << [symbol |-> "P1", quantity |-> 1, cost_basis |-> 3,
                    instrument |-> FullInstrument(FixedIncome100, Healthcare100)],
                   [symbol |-> "P2", quantity |-> 1, cost_basis |-> 0,
                    instrument |-> FullInstrument(Equity100, Technology100)] >>],
           [account_type |-> "roth_ira", cash_balance |-> 0,
            positions |->
                << [symbol |-> "P3", quantity |-> 1, cost_basis |-> 3,
                    instrument |-> FullInstrument(Equity100, Technology100)] >>] >>]

EngineSnapshots ==
    SparseSnapshots
    \cup { FullSnapshot, [accounts |-> <<>>],
           [accounts |-> << [account_type |-> "taxable", cash_balance |-> 0,
                             positions |-> <<>>] >>] }

InitEngine ==
    /\ portfolio_data \in EngineSnapshots
    /\ \E inp \in { [current |-> ExampleCurrent, target |-> ExampleTarget, total |-> 100000],
                    [current |-> <<>>, target |-> << <<"equity", 1>> >>,
                     total |-> MaxTotalValue] } :
          /\ current_allocation = inp.current
          /\ target_allocation = inp.target
          /\ total_portfolio_value = inp.total
    /\ threshold \in {0, DefaultThreshold}
    /\ years = 3
    /\ annual_withdrawal = MaxWithdrawal
    /\ combined_rate = DefaultTaxBracket + DefaultStateTax
    /\ first_result = [a \in Analyzers |-> NeverCalled]
    /\ last_result = [a \in Analyzers |-> NeverCalled]
    /\ allocation = AllocationNotCalled
    /\ volatility = VolatilityNotCalled
    /\ trades = NotCalled
    /\ prev_trades = NoPrevious
    /\ cost_estimate = NoEstimate
    /\ sequencing_plan = PlanNotCalled
    /\ positions_analysis = GainsNotCalled
    /\ tlh_opportunities = HarvestingNotCalled
    /\ asset_location = LocationNotCalled
    /\ RiskIdle
    /\ PlatformIdle

NextEngine ==
    \/ CallCurrentAllocation
    \/ CallRebalancingTrades
    \/ CallPortfolioVolatility
    \/ CallConcentrationRisks
    \/ CallUnrealizedGains
    \/ CallTaxLossHarvesting
    \/ CallAssetLocation
    \/ CallWithdrawalSequencing

SpecEngine == InitEngine /\ [][NextEngine]_vars

(***************************************************************************)
(* File tools of the autonomous agents (tools/file_operations.py).         *)
(*                                                                         *)
(* A file name is a sequence of characters, a path a sequence of file      *)
(* names from the root; str(path) is the character sequence "/a/b".  A     *)
(* filename argument is [absolute, parts].  The file system holds no       *)
(* symbolic links, so Path.resolve() only removes ".." components.  An     *)
(* Optional[Path] is <<>> for None and <<p>> for the path p.               *)
(***************************************************************************)
DotDot == <<".", ".">>
Home == <<"h">>
Workspace == <<"w">>
WorkspaceX == <<"w", "x">>
Notes == <<"f">>

\* SANDBOX_DIR.resolve(): /h/w
SandboxDir == <<Home, Workspace>>

Names == {DotDot, Home, Workspace, WorkspaceX, Notes}

RECURSIVE PartsUpTo(_)
PartsUpTo(n) ==
    IF n = 0 THEN {<<>>}
    ELSE PartsUpTo(n - 1)
         \cup {Append(ps, name) : ps \in {q \in PartsUpTo(n - 1) : Len(q) = n - 1},
                                  name \in Names}

Filenames == [absolute : BOOLEAN, parts : PartsUpTo(MaxDepth)]

\* SANDBOX_DIR / filename: an absolute right operand replaces the left one
Join(dir, filename) == IF filename.absolute THEN filename.parts ELSE dir \o filename.parts

\* Path.resolve() without symbolic links: ".." drops the component before it
\* and is dropped itself at the root
RECURSIVE Resolve(_, _)
Resolve(done, parts) ==
    IF parts = <<>> THEN done
    ELSE IF Head(parts) = DotDot
         THEN Resolve(IF done = <<>> THEN done ELSE SubSeq(done, 1, Len(done) - 1),
                      Tail(parts))
         ELSE Resolve(Append(done, Head(parts)), Tail(parts))

\* str(path)
RECURSIVE Str(_)
Str(path) ==
    IF path = <<>> THEN <<"/">>
    ELSE IF Len(path) = 1 THEN <<"/">> \o path[1]
         ELSE Str(SubSeq(path, 1, Len(path) - 1)) \o <<"/">> \o path[Len(path)]

\* a.startswith(b) on strings
StartsWith(a, b) == Len(b) <= Len(a) /\ SubSeq(a, 1, Len(b)) = b

\* the prefix test on path components instead of characters
StartsWithComponents(a, b) == StartsWith(a, b)

\* str(file_path).startswith(str(SANDBOX_DIR.resolve()))
PassesSecurityCheck(file_path) == StartsWith(Str(file_path), Str(SandboxDir))

_get_safe_path(filename) ==
    LET file_path == Resolve(<<>>, Join(SandboxDir, filename))
    IN  IF ~PassesSecurityCheck(file_path) THEN <<>> ELSE <<file_path>>

Parent(path) == IF path = <<>> THEN path ELSE SubSeq(path, 1, Len(path) - 1)

\* the path and its ancestors up to the root
UpToRoot(path) == {SubSeq(path, 1, n) : n \in 0 .. Len(path)}

Exists(fs, path) == path \in fs.files \cup fs.dirs

NoCall == [calls |-> 0, tool |-> "none", filename |-> [absolute |-> FALSE, parts |-> <<>>],
           path |-> <<>>, outcome |-> "none"]

Outcome(tool, filename, safe, outcome) ==
    [calls |-> file_result.calls + 1, tool |-> tool, filename |-> filename,
     path |-> safe, outcome |-> outcome]

read_file(filename) ==
    LET safe == _get_safe_path(filename)
    IN  /\ file_result.calls < MaxFileCalls
        /\ file_result' =
              Outcome("read_file", filename, safe,
                      IF safe = <<>> THEN "Invalid file path"
                      ELSE IF ~Exists(sandbox_files, safe[1]) THEN "File not found"
                      ELSE IF safe[1] \in sandbox_files.dirs THEN "Failed to read file"
                      ELSE "read")
        /\ UNCHANGED sandbox_files

write_file(filename) ==
    LET safe == _get_safe_path(filename)
        parents == UpToRoot(Parent(safe[1]))
        mkdir_fails == parents \cap sandbox_files.files # {}
        made == [sandbox_files EXCEPT !.dirs = @ \cup parents]
    IN  /\ file_result.calls < MaxFileCalls
        /\ IF safe = <<>>
           THEN /\ file_result' = Outcome("write_file", filename, safe, "Invalid file path")
                /\ UNCHANGED sandbox_files
           ELSE IF mkdir_fails
           THEN /\ file_result' = Outcome("write_file", filename, safe, "Failed to write file")
                /\ UNCHANGED sandbox_files
           ELSE IF safe[1] \in made.dirs
           THEN /\ file_result' = Outcome("write_file", filename, safe, "Failed to write file")
                /\ sandbox_files' = made
           ELSE /\ file_result' = Outcome("write_file", filename, safe, "written")
                /\ sandbox_files' = [made EXCEPT !.files = @ \cup {safe[1]}]

list_files(directory) ==
    LET safe == _get_safe_path(directory)
    IN  /\ file_result.calls < MaxFileCalls
        /\ file_result' =
              Outcome("list_files", directory, safe,
                      IF safe = <<>> THEN "Invalid directory path"
                      ELSE IF ~Exists(sandbox_files, safe[1]) THEN "Directory not found"
                      ELSE IF safe[1] \in sandbox_files.files THEN "Failed to list directory"
                      ELSE "listed")
        /\ UNCHANGED sandbox_files

delete_file(filename) ==
    LET safe == _get_safe_path(filename)
    IN  /\ file_result.calls < MaxFileCalls
        /\ IF safe = <<>>
           THEN /\ file_result' = Outcome("delete_file", filename, safe, "Invalid file path")
                /\ UNCHANGED sandbox_files
           ELSE IF ~Exists(sandbox_files, safe[1])
           THEN /\ file_result' = Outcome("delete_file", filename, safe, "File not found")
                /\ UNCHANGED sandbox_files
           ELSE IF safe[1] \in sandbox_files.dirs
           THEN /\ file_result' = Outcome("delete_file", filename, safe, "Failed to delete file")
                /\ UNCHANGED sandbox_files
           ELSE /\ file_result' = Outcome("delete_file", filename, safe, "deleted")
                /\ sandbox_files' = [sandbox_files EXCEPT !.files = @ \ {safe[1]}]

\* the sandbox directory exists (SANDBOX_DIR.mkdir) and holds one file; next
\* to it there is a file, and possibly a file or a directory whose name
\* starts with the name of the sandbox directory
InitialFileSystems ==
    LET base == [files |-> {<<Home, Notes>>, <<Home, Workspace, Notes>>},
                 dirs |-> {<<>>, <<Home>>, SandboxDir}]
    IN  { base,
          [base EXCEPT !.files = @ \cup {<<Home, WorkspaceX>>}],
          [base EXCEPT !.files = @ \cup {<<Home, WorkspaceX, Notes>>},
                       !.dirs = @ \cup {<<Home, WorkspaceX>>}] }

FilesUnchanged ==
    UNCHANGED <<rebalancer_vars, portfolio_vars, withdrawal_vars, analysis_vars,
                memory_files, saved, loaded, saas_vars, invocation>>

InitFiles ==
    /\ sandbox_files \in InitialFileSystems
    /\ file_result = NoCall
    /\ memory_files = <<>>
    /\ saved = <<>>
    /\ loaded = <<>>
    /\ SaasIdle
    /\ invocation = <<>>
    /\ RebalancerIdle
    /\ PortfolioIdle
    /\ WithdrawalIdle
    /\ TaxIdle
    /\ RiskIdle
    /\ EngineIdle

ReadFile ==
    /\ \E filename \in Filenames : read_file(filename)
    /\ FilesUnchanged

WriteFile ==
    /\ \E filename \in Filenames : write_file(filename)
    /\ FilesUnchanged

ListFiles ==
    /\ \E directory \in Filenames : list_files(directory)
    /\ FilesUnchanged

DeleteFile ==
    /\ \E filename \in Filenames : delete_file(filename)
    /\ FilesUnchanged

NextFiles ==
    \/ ReadFile
    \/ WriteFile
    \/ ListFiles
    \/ DeleteFile

SpecFiles == InitFiles /\ [][NextFiles]_vars

(***************************************************************************)
(* FileMemoryStore of the autonomous agents (memory.py).                   *)
(*                                                                         *)
(* memory_files maps the name of each file of storage_dir to the JSON      *)
(* document in it, a dict without its last_updated stamp.  Todos and       *)
(* states are JSON values (lists, dicts with string keys), which json.dump *)
(* followed by json.load gives back unchanged.  An Optional value is <<>>  *)
(* for None and <<v>> for the value v.  saved remembers, per agent id,     *)
(* what the latest save_todos / save_agent_state call was given since the  *)
(* latest delete_session of that id.                                       *)
(***************************************************************************)
AgentIds == {"agent", "agent_state"}

TodoLists == {<<>>} \cup {[i \in 1 .. n |-> [description |-> "Task"]] : n \in 1 .. MaxTodos}

AgentStates == {[current_step |-> n] : n \in 1 .. MaxTodos}

\* os.path.join(self.storage_dir, f"{agent_id}.json")
TodosFile(agent_id) == agent_id \o ".json"

\* os.path.join(self.storage_dir, f"{agent_id}_state.json")
StateFile(agent_id) == agent_id \o "_state.json"

FileExists(file_path) == file_path \in DOMAIN memory_files

\* open(file_path, 'w') and json.dump(data, f)
WriteJson(file_path, data) ==
    [f \in DOMAIN memory_files \cup {file_path} |->
        IF f = file_path THEN data ELSE memory_files[f]]

\* os.remove(file_path) of an existing file
Remove(files, file_path) == [f \in DOMAIN files \ {file_path} |-> files[f]]

NothingSaved == [todos |-> <<>>, state |-> <<>>, deleted |-> FALSE]

save_todos(agent_id, todos) ==
    /\ memory_files' = WriteJson(TodosFile(agent_id),
                                 [todos |-> todos, todo_count |-> Len(todos)])
    /\ saved' = [saved EXCEPT ![agent_id].todos = <<todos>>, ![agent_id].deleted = FALSE]
    /\ loaded' = [op |-> "save_todos", agent_id |-> agent_id, result |-> TRUE]

load_todos(agent_id) ==
    LET file_path == TodosFile(agent_id)
    IN  /\ loaded' = [op |-> "load_todos", agent_id |-> agent_id,
                      result |-> IF FileExists(file_path)
                                 THEN DictGet(memory_files[file_path], "todos", <<>>)
                                 ELSE <<>>]
        /\ UNCHANGED <<memory_files, saved>>

save_agent_state(agent_id, state) ==
    /\ memory_files' = WriteJson(StateFile(agent_id), [state |-> state])
    /\ saved' = [saved EXCEPT ![agent_id].state = <<state>>, ![agent_id].deleted = FALSE]
    /\ loaded' = [op |-> "save_agent_state", agent_id |-> agent_id, result |-> TRUE]

load_agent_state(agent_id) ==
    LET file_path == StateFile(agent_id)
    IN  /\ loaded' = [op |-> "load_agent_state", agent_id |-> agent_id,
                      result |-> IF FileExists(file_path)
                                 THEN IF "state" \in DOMAIN memory_files[file_path]
                                      THEN <<memory_files[file_path].state>>
                                      ELSE <<>>
                                 ELSE <<>>]
        /\ UNCHANGED <<memory_files, saved>>

\* os.remove of the todos file raises when the file is missing; the except
\* clause then returns False before the state file is looked at
delete_session(agent_id) ==
    LET todos_file == TodosFile(agent_id)
        state_file == StateFile(agent_id)
        removed == Remove(memory_files, todos_file)
    IN  /\ IF ~FileExists(todos_file)
           THEN /\ UNCHANGED memory_files
                /\ loaded' = [op |-> "delete_session", agent_id |-> agent_id,
                              result |-> FALSE]
           ELSE /\ memory_files' = IF state_file \in DOMAIN removed
                                   THEN Remove(removed, state_file)
                                   ELSE removed
                /\ loaded' = [op |-> "delete_session", agent_id |-> agent_id,
                              result |-> TRUE]
        /\ saved' = [saved EXCEPT ![agent_id] = [todos |-> <<>>, state |-> <<>>,
                                                deleted |-> TRUE]]

MemoryUnchanged ==
    UNCHANGED <<rebalancer_vars, portfolio_vars, withdrawal_vars, analysis_vars,
                sandbox_files, file_result, saas_vars, invocation>>

\* FileMemoryStore(storage_dir) on a new, empty directory
InitMemory ==
    /\ memory_files = <<>>
    /\ saved = [a \in AgentIds |-> NothingSaved]
    /\ loaded = [op |-> "none", agent_id |-> "", result |-> TRUE]
    /\ sandbox_files = {}
    /\ file_result = <<>>
    /\ SaasIdle
    /\ invocation = <<>>
    /\ RebalancerIdle
    /\ PortfolioIdle
    /\ WithdrawalIdle
    /\ TaxIdle
    /\ RiskIdle
    /\ EngineIdle

SaveTodos ==
    /\ \E agent_id \in AgentIds, todos \in TodoLists : save_todos(agent_id, todos)
    /\ MemoryUnchanged

LoadTodos ==
    /\ \E agent_id \in AgentIds : load_todos(agent_id)
    /\ MemoryUnchanged

SaveAgentState ==
    /\ \E agent_id \in AgentIds, state \in AgentStates : save_agent_state(agent_id, state)
    /\ MemoryUnchanged

LoadAgentState ==
    /\ \E agent_id \in AgentIds : load_agent_state(agent_id)
    /\ MemoryUnchanged

DeleteSession ==
    /\ \E agent_id \in AgentIds : delete_session(agent_id)
    /\ MemoryUnchanged

NextMemory ==
    \/ SaveTodos
    \/ LoadTodos
    \/ SaveAgentState
    \/ LoadAgentState
    \/ DeleteSession

SpecMemory == InitMemory /\ [][NextMemory]_vars

(***************************************************************************)
(* lambda_handler and the retried agent run of the rebalancer, the risk    *)
(* analyzer and the tax optimizer (lambda_handler.py; the three files      *)
(* differ in names and log texts only).                                    *)
(*                                                                         *)
(* invocation.attempts lists, per attempt of run_*_agent, the statement    *)
(* that raised and the exception that left the function ("none" when the   *)
(* attempt returned).  Every exception is a subclass of Exception.         *)
(***************************************************************************)
Handlers == {"rebalancer", "risk_analyzer", "tax_optimizer"}

\* stop=stop_after_attempt(5)
StopAfterAttempt == 5

\* a retry condition that accepts every exception
RetryOnAnyException(exception) == TRUE

\* retry_if_exception_type((RateLimitError, AgentTemporaryError, TimeoutError,
\* asyncio.TimeoutError))
ShouldRetry(exception) ==
    exception \in {"RateLimitError", "AgentTemporaryError", "TimeoutError"}

\* what leaves the try block around Runner.run: a timeout, and an exception
\* whose text holds "timeout" or "throttled", become AgentTemporaryError
RunnerRaises(exception) ==
    IF exception \in {"TimeoutError", "Exception: throttled"}
    THEN "AgentTemporaryError"
    ELSE exception

\* the task text of the risk analyzer divides var_95 by total_value
MaximumExpectedLoss(handler, data) ==
    IF handler = "risk_analyzer" /\ SnapshotTotal(data) = 0
    THEN "ZeroDivisionError"
    ELSE "none"

\* create_agent with the default user preferences
create_agent(handler, data) == MaximumExpectedLoss(handler, data)

\* the ways one attempt of run_*_agent can end
AttemptOutcomes(handler, data) ==
    { [statement |-> "Database()", raised |-> x] : x \in {"TimeoutError", "Exception"} }
    \cup
    IF create_agent(handler, data) # "none"
    THEN { [statement |-> "create_agent", raised |-> create_agent(handler, data)] }
    ELSE { [statement |-> "Runner.run", raised |-> RunnerRaises(x)] :
              x \in {"TimeoutError", "Exception: throttled", "RateLimitError", "Exception"} }
         \cup { [statement |-> "db.jobs.update", raised |-> "Exception"],
                [statement |-> "return", raised |-> "none"] }

\* portfolios rebuilt from the database always carry an accounts list
StoredPortfolios ==
    { FullSnapshot, [accounts |-> <<>>],
      [accounts |-> << [account_type |-> "taxable", cash_balance |-> 0,
                        positions |-> <<>>] >>] }

Returned(code) == [invocation EXCEPT !.pc = "returned", !.statusCode = code]

LambdaUnchanged ==
    UNCHANGED <<rebalancer_vars, allocation, volatility, withdrawal_vars, analysis_vars,
                agents_vars, saas_vars>>

\* lines 112-165: the event is read and, without portfolio_data in it, the
\* portfolio is loaded from the database
LoadPortfolio ==
    /\ invocation.pc = "invoked"
    /\ \/ /\ ~invocation.job_id
          /\ invocation' = Returned(400)
          /\ UNCHANGED portfolio_data
       \/ /\ invocation.job_id
          /\ portfolio_data # <<>>
          /\ invocation' = [invocation EXCEPT !.pc = "running"]
          /\ UNCHANGED portfolio_data
       \/ /\ invocation.job_id
          /\ portfolio_data = <<>>
          /\ \/ \E stored \in StoredPortfolios :
                   /\ portfolio_data' = stored
                   /\ invocation' = [invocation EXCEPT !.pc = "running"]
             \/ /\ invocation' = Returned(404)
                /\ UNCHANGED portfolio_data
             \/ /\ invocation' = Returned(400)
                /\ UNCHANGED portfolio_data
    /\ LambdaUnchanged

\* one attempt of the retried run_*_agent and what tenacity and
\* lambda_handler make of its outcome
AttemptRun ==
    /\ invocation.pc = "running"
    /\ \E outcome \in AttemptOutcomes(invocation.handler, portfolio_data) :
          LET attempts == Append(invocation.attempts, outcome)
          IN  invocation' =
                 IF outcome.raised = "none"
                 THEN [invocation EXCEPT !.attempts = attempts, !.pc = "returned",
                                         !.statusCode = 200]
                 ELSE IF ShouldRetry(outcome.raised) /\ Len(attempts) < StopAfterAttempt
                 THEN [invocation EXCEPT !.attempts = attempts]
                 ELSE [invocation EXCEPT !.attempts = attempts, !.pc = "returned",
                                         !.statusCode = 500]
    /\ UNCHANGED portfolio_data
    /\ LambdaUnchanged

InitLambda ==
    /\ portfolio_data \in EngineSnapshots
    /\ \E handler \in Handlers, job_id \in BOOLEAN :
          invocation = [handler |-> handler, job_id |-> job_id, pc |-> "invoked",
                        attempts |-> <<>>, statusCode |-> 0]
    /\ allocation = AllocationNotCalled
    /\ volatility = VolatilityNotCalled
    /\ AgentsIdle
    /\ SaasIdle
    /\ RebalancerIdle
    /\ WithdrawalIdle
    /\ TaxIdle
    /\ RiskIdle
    /\ EngineIdle

NextLambda ==
    \/ LoadPortfolio
    \/ AttemptRun

SpecLambda == InitLambda /\ [][NextLambda]_vars

\* ------------------------------------------------------------------------
\* saas_platform/backend/config/subscription_tiers.py
\* ------------------------------------------------------------------------

\* the values of the SubscriptionTier enum
SubscriptionTier == {"free", "basic_plan", "premium_subscription", "enterprise_plan"}

\* the marker of an unlimited quota
Unlimited == -1

\* a list of keys of TIER_LIMITS, or the string "all"
Listed(keys) == [all |-> FALSE, keys |-> keys]

Everything == [all |-> TRUE, keys |-> {}]

TIER_LIMITS ==
    [tier \in SubscriptionTier |->
        CASE tier = "free" ->
                [ideas_per_day |-> 3, ideas_per_month |-> 30,
                 template_access |-> Listed({"general"}),
                 languages |-> Listed({"en"}),
                 custom_prompts |-> FALSE]
          [] tier = "basic_plan" ->
                [ideas_per_day |-> 20, ideas_per_month |-> 300,
                 template_access |-> Listed({"general", "tech", "ecommerce"}),
                 languages |-> Listed({"en", "es", "fr"}),
                 custom_prompts |-> FALSE]
          [] tier = "premium_subscription" ->
                [ideas_per_day |-> 100, ideas_per_month |-> 2000,
                 template_access |-> Listed({"general", "tech", "ecommerce",
                                             "healthcare", "finance", "saas"}),
                 languages |-> Listed({"en", "es", "fr", "de", "it", "pt", "zh", "ja"}),
                 custom_prompts |-> TRUE]
          [] tier = "enterprise_plan" ->
                [ideas_per_day |-> Unlimited, ideas_per_month |-> Unlimited,
                 template_access |-> Everything,
                 languages |-> Everything,
                 custom_prompts |-> TRUE]]

\* SubscriptionTier(tier) raises ValueError for a string that is no value of
\* the enum, and the free tier is returned
get_tier_limits(tier) ==
    IF tier \in SubscriptionTier THEN TIER_LIMITS[tier] ELSE TIER_LIMITS["free"]

LimitExceeded(count, limit) == count > limit

\* the comparison of lines 97 and 101
LimitReached(count, limit) == count >= limit

DailyReason(daily_limit) ==
    "Daily limit reached (" \o ToString(daily_limit)
        \o " ideas per day). Upgrade for more!"

MonthlyReason(monthly_limit) ==
    "Monthly limit reached (" \o ToString(monthly_limit)
        \o " ideas per month). Upgrade for more!"

can_generate_idea(tier, daily_count, monthly_count) ==
    LET limits == get_tier_limits(tier)
        daily_limit == limits.ideas_per_day
        monthly_limit == limits.ideas_per_month
    IN  IF daily_limit = Unlimited /\ monthly_limit = Unlimited
        THEN [can_generate |-> TRUE, reason |-> ""]
        ELSE IF daily_limit # Unlimited /\ LimitReached(daily_count, daily_limit)
        THEN [can_generate |-> FALSE, reason |-> DailyReason(daily_limit)]
        ELSE IF monthly_limit # Unlimited /\ LimitReached(monthly_count, monthly_limit)
        THEN [can_generate |-> FALSE, reason |-> MonthlyReason(monthly_limit)]
        ELSE [can_generate |-> TRUE, reason |-> ""]

\* the tier strings a token can carry: the four plans and a role that is none
TierStrings == SubscriptionTier \cup {"org:admin"}

\* counts at a distance of at most MaxOver from a finite limit, and zero
CountsAround(limits) ==
    {0} \cup UNION {(limit - MaxOver) .. (limit + MaxOver) : limit \in limits}

DailyCounts ==
    CountsAround({TIER_LIMITS[tier].ideas_per_day : tier \in SubscriptionTier}
                     \ {Unlimited})

MonthlyCounts ==
    CountsAround({TIER_LIMITS[tier].ideas_per_month : tier \in SubscriptionTier}
                     \ {Unlimited})

TiersUnchanged ==
    UNCHANGED <<rebalancer_vars, portfolio_vars, withdrawal_vars, analysis_vars,
                agents_vars, usage, now, requests, invocation>>

InitTiers ==
    /\ \E tier \in TierStrings, daily_count \in DailyCounts,
          monthly_count \in MonthlyCounts :
          idea_check = [tier |-> tier, daily_count |-> daily_count,
                        monthly_count |-> monthly_count, result |-> <<>>]
    /\ usage = <<>>
    /\ now = 0
    /\ requests = <<>>
    /\ invocation = <<>>
    /\ AgentsIdle
    /\ portfolio_data = <<>>
    /\ allocation = AllocationNotCalled
    /\ volatility = VolatilityNotCalled
    /\ RebalancerIdle
    /\ WithdrawalIdle
    /\ TaxIdle
    /\ RiskIdle
    /\ EngineIdle

CanGenerateIdea ==
    /\ idea_check.result = <<>>
    /\ idea_check' =
          [idea_check EXCEPT !.result =
              <<can_generate_idea(idea_check.tier, idea_check.daily_count,
                                  idea_check.monthly_count)>>]
    /\ TiersUnchanged

NextTiers == CanGenerateIdea

SpecTiers == InitTiers /\ [][NextTiers]_vars

\* ------------------------------------------------------------------------
\* saas_platform/backend/middleware/usage_tracker.py
\*
\* The clock counts ticks; datetime.now() is a reading of it.  A day has
\* TicksPerDay ticks and a month DaysPerMonth days, so that readings of one
\* day differ, days roll over inside a month and months roll over.  usage is
\* the dict _usage; the timestamp of a history event is left out of the
\* event, no method reads it.
\* ------------------------------------------------------------------------
TicksPerDay == 2

DaysPerMonth == 2

HistoryCap == 100

\* the last tick of the months a tracker is followed through
LastTick == MaxMonths * DaysPerMonth * TicksPerDay - 1

\* strftime("%Y-%m-%d") and strftime("%Y-%m") of a reading
DayOf(reading) == reading \div TicksPerDay

MonthOf(reading) == DayOf(reading) \div DaysPerMonth

UserIds == {"user_1", "user_2"}

\* the template and the language of the requests that are tracked
Events == {[template |-> "general", language |-> "en"],
           [template |-> "tech", language |-> "es"]}

\* the readings a call can make one after the other, none before `from`
\* and none after `until`
Readings(from, until, count) ==
    {readings \in [1 .. count -> from .. until] :
        \A i \in 1 .. (count - 1) : readings[i] <= readings[i + 1]}

\* the readings of a call on the tracker: _get_user_data reads the clock
\* twice for a user it has no dict of and not at all otherwise, the reset
\* reads it once
ReadingsOfCall(tracked, user_id, from, until) ==
    IF user_id \in DOMAIN tracked
    THEN {<<from, from, reading>> : reading \in from .. until}
    ELSE Readings(from, until, 3)

\* the dict stored for a user that has none: the day and the month come
\* from two readings of the clock
NewUserData(day_reading, month_reading) ==
    [total_ideas |-> 0, daily_ideas |-> 0, monthly_ideas |-> 0,
     last_reset_day |-> DayOf(day_reading),
     last_reset_month |-> MonthOf(month_reading),
     history |-> <<>>]

_get_user_data(tracked, user_id, day_reading, month_reading) ==
    IF user_id \in DOMAIN tracked
    THEN tracked
    ELSE [u \in DOMAIN tracked \cup {user_id} |->
             IF u = user_id THEN NewUserData(day_reading, month_reading)
             ELSE tracked[u]]

ResetMonthOnly(user_data, reading) ==
    IF user_data.last_reset_month # MonthOf(reading)
    THEN [user_data EXCEPT !.monthly_ideas = 0,
                           !.last_reset_month = MonthOf(reading)]
    ELSE user_data

\* one reading serves both comparisons
_reset_counters_if_needed(user_data, reading) ==
    LET daily == IF user_data.last_reset_day # DayOf(reading)
                 THEN [user_data EXCEPT !.daily_ideas = 0,
                                        !.last_reset_day = DayOf(reading)]
                 ELSE user_data
    IN  IF daily.last_reset_month # MonthOf(reading)
        THEN [daily EXCEPT !.monthly_ideas = 0,
                           !.last_reset_month = MonthOf(reading)]
        ELSE daily

LastEvents(history, count) ==
    IF Len(history) > count
    THEN SubSeq(history, Len(history) - count + 1, Len(history))
    ELSE history

\* readings: the two of a new user's dict, then the one of the reset
track_idea_generation(tracked, user_id, template, language, readings) ==
    LET created == _get_user_data(tracked, user_id, readings[1], readings[2])
        user_data == _reset_counters_if_needed(created[user_id], readings[3])
        history == Append(user_data.history,
                          [template |-> template, language |-> language])
        counted == [user_data EXCEPT !.total_ideas = @ + 1,
                                     !.daily_ideas = @ + 1,
                                     !.monthly_ideas = @ + 1,
                                     !.history = LastEvents(history, HistoryCap)]
    IN  [u \in DOMAIN created |-> IF u = user_id THEN counted ELSE created[u]]

\* the dict after get_usage_stats; the statistics returned are its counters
get_usage_stats(tracked, user_id, readings) ==
    LET created == _get_user_data(tracked, user_id, readings[1], readings[2])
        user_data == _reset_counters_if_needed(created[user_id], readings[3])
    IN  [u \in DOMAIN created |-> IF u = user_id THEN user_data ELSE created[u]]

\* get_analytics creates the user's dict and resets nothing
get_analytics(tracked, user_id, readings) ==
    _get_user_data(tracked, user_id, readings[1], readings[2])

RECURSIVE TotalIdeas(_, _)
TotalIdeas(tracked, users) ==
    IF users = {} THEN 0
    ELSE LET u == CHOOSE x \in users : TRUE
         IN  tracked[u].total_ideas + TotalIdeas(tracked, users \ {u})

TrackerUnchanged ==
    UNCHANGED <<rebalancer_vars, portfolio_vars, withdrawal_vars, analysis_vars,
                agents_vars, idea_check, requests, invocation>>

InitTracker ==
    /\ usage = <<>>
    /\ now = 0
    /\ idea_check = <<>>
    /\ requests = <<>>
    /\ invocation = <<>>
    /\ AgentsIdle
    /\ portfolio_data = <<>>
    /\ allocation = AllocationNotCalled
    /\ volatility = VolatilityNotCalled
    /\ RebalancerIdle
    /\ WithdrawalIdle
    /\ TaxIdle
    /\ RiskIdle
    /\ EngineIdle

TrackIdeaGeneration ==
    /\ TotalIdeas(usage, DOMAIN usage) < MaxIdeas
    /\ \E user_id \in UserIds, event \in Events :
          \E readings \in ReadingsOfCall(usage, user_id, now, LastTick) :
             /\ usage' = track_idea_generation(usage, user_id, event.template,
                                               event.language, readings)
             /\ now' = readings[3]
    /\ TrackerUnchanged

GetUsageStats ==
    /\ \E user_id \in UserIds :
          \E readings \in ReadingsOfCall(usage, user_id, now, LastTick) :
             /\ usage' = get_usage_stats(usage, user_id, readings)
             /\ now' = readings[3]
    /\ TrackerUnchanged

GetAnalytics ==
    /\ \E user_id \in UserIds :
          \E readings \in IF user_id \in DOMAIN usage
                           THEN {<<now, now>>}
                           ELSE Readings(now, LastTick, 2) :
             /\ usage' = get_analytics(usage, user_id, readings)
             /\ now' = readings[2]
    /\ TrackerUnchanged

NextTracker ==
    \/ TrackIdeaGeneration
    \/ GetUsageStats
    \/ GetAnalytics

SpecTracker == InitTracker /\ [][NextTracker]_vars

\* ------------------------------------------------------------------------
\* saas_platform/backend/api/index.py, POST /api
\*
\* idea is a plain def, which FastAPI runs in a thread pool: requests are
\* handled concurrently on the one usage_tracker of the process.  A request
\* in flight is an element of the bag requests; its handler is split where another
\* thread's call on the tracker can come in between: the quota check of
\* lines 116-133, the validation and the completion call of lines 135-171,
\* and the tracking of lines 174-190.
\* ------------------------------------------------------------------------

\* the fields of a token and the body of a request
IdeaRequest(sub, org_role, template, language, custom_prompt) ==
    [user_id |-> sub, subscription_plan |-> org_role, template |-> template,
     language |-> language, custom_prompt |-> custom_prompt]

\* a free user's default request and its three variations that the free
\* tier does not allow, and a premium user's request
IdeaRequests ==
    {IdeaRequest("user_1", "free", "general", "en", FALSE),
     IdeaRequest("user_1", "free", "tech", "en", FALSE),
     IdeaRequest("user_1", "free", "general", "es", FALSE),
     IdeaRequest("user_1", "free", "general", "en", TRUE),
     IdeaRequest("user_2", "premium_subscription", "tech", "es", TRUE)}

\* the keys of SUPPORTED_LANGUAGES
SUPPORTED_LANGUAGES == {"en", "es", "fr", "de", "it", "pt", "zh", "ja"}

is_language_supported(lang_code, available_languages) ==
    IF available_languages.all
    THEN lang_code \in SUPPORTED_LANGUAGES
    ELSE lang_code \in available_languages.keys

TemplateRefused(request, tier_limits) ==
    /\ request.template \notin tier_limits.template_access.keys
    /\ ~tier_limits.template_access.all

LanguageRefused(request, tier_limits) ==
    ~is_language_supported(request.language, tier_limits.languages)

CustomPromptRefused(request, tier_limits) ==
    request.custom_prompt /\ ~tier_limits.custom_prompts

TemplateCheckOnly(request, tier_limits) ==
    TemplateRefused(request, tier_limits)

\* lines 135-154: the three checks that answer 403
Forbidden(request, tier_limits) ==
    \/ TemplateRefused(request, tier_limits)
    \/ LanguageRefused(request, tier_limits)
    \/ CustomPromptRefused(request, tier_limits)

Answered(request, status_code) ==
    [request EXCEPT !.pc = "answered", !.status_code = status_code]

\* the requests after the handler of one of them has moved on
Handled(request, moved) ==
    (requests (-) SetToBag({request})) (+) SetToBag({moved})

ApiUnchanged ==
    UNCHANGED <<rebalancer_vars, portfolio_vars, withdrawal_vars, analysis_vars,
                agents_vars, idea_check, invocation>>

InitApi ==
    /\ requests = EmptyBag
    /\ usage = <<>>
    /\ now = 0
    /\ idea_check = <<>>
    /\ invocation = <<>>
    /\ AgentsIdle
    /\ portfolio_data = <<>>
    /\ allocation = AllocationNotCalled
    /\ volatility = VolatilityNotCalled
    /\ RebalancerIdle
    /\ WithdrawalIdle
    /\ TaxIdle
    /\ RiskIdle
    /\ EngineIdle

\* a request arrives and a thread of the pool takes it
ReceiveRequest ==
    /\ BagCardinality(requests) < MaxRequests
    /\ \E request \in IdeaRequests :
          requests' = requests (+)
                         SetToBag({[user_id |-> request.user_id,
                                    subscription_plan |-> request.subscription_plan,
                                    template |-> request.template,
                                    language |-> request.language,
                                    custom_prompt |-> request.custom_prompt,
                                    pc |-> "received", status_code |-> 0]})
    /\ UNCHANGED <<usage, now>>
    /\ ApiUnchanged

\* lines 116-133: get_usage_stats and can_generate_idea on what it returned
CheckQuota ==
    /\ \E request \in BagToSet(requests) :
          /\ request.pc = "received"
          /\ \E readings \in ReadingsOfCall(usage, request.user_id, now, MaxApiTick) :
             LET tracked == get_usage_stats(usage, request.user_id, readings)
                 stats == tracked[request.user_id]
                 verdict == can_generate_idea(request.subscription_plan,
                                              stats.daily_ideas,
                                              stats.monthly_ideas)
             IN  /\ usage' = tracked
                 /\ now' = readings[3]
                 /\ requests' =
                       Handled(request,
                               IF verdict.can_generate
                               THEN [request EXCEPT !.pc = "checked"]
                               ELSE Answered(request, 429))
    /\ ApiUnchanged

\* lines 135-171: the three 403 checks, the prompt and the completion call,
\* which returns the stream or raises
ValidateAndGenerate ==
    /\ \E request \in BagToSet(requests) :
          /\ request.pc = "checked"
          /\ IF Forbidden(request, get_tier_limits(request.subscription_plan))
             THEN requests' = Handled(request, Answered(request, 403))
             ELSE \/ requests' = Handled(request, [request EXCEPT !.pc = "streaming"])
                  \/ requests' = Handled(request, Answered(request, 500))
    /\ UNCHANGED <<usage, now>>
    /\ ApiUnchanged

\* lines 174-190: the generation is tracked and the stream is returned
TrackAndRespond ==
    /\ \E request \in BagToSet(requests) :
          /\ request.pc = "streaming"
          /\ \E readings \in ReadingsOfCall(usage, request.user_id, now, MaxApiTick) :
                /\ usage' = track_idea_generation(usage, request.user_id,
                                                  request.template,
                                                  request.language, readings)
                /\ now' = readings[3]
          /\ requests' = Handled(request, Answered(request, 200))
    /\ ApiUnchanged

NextApi ==
    \/ ReceiveRequest
    \/ CheckQuota
    \/ ValidateAndGenerate
    \/ TrackAndRespond

SpecApi == InitApi /\ [][NextApi]_vars


(***************************************************************************)
(* Claims about calculate_portfolio_volatility, checked under              *)
(* SpecVolatility.                                                         *)
(***************************************************************************)
\* C2: an asset-class entry keyed fixed_income with pct > 0 on a position of
\* positive value adds (weight x 0.05)^2 to the variance accumulator: it is
\* treated with the bonds constant, not skipped.
C2_FixedIncomeUsesBondsVolatility ==
    volatility.called =>
        \A i \in DOMAIN volatility.entries :
            LET e == volatility.entries[i]
            IN  (e.asset_class = "fixed_income" /\ e.pct > 0 /\ e.value > 0) =>
                    /\ e.added[1] > 0
                    /\ e.added = RatioSquare(
                          Ratio(e.value * e.pct * volatilities.bonds, 100 * e.total_value))

PermutedSeqs(s) ==
    { [i \in DOMAIN s |-> s[f[i]]] : f \in Permutations(DOMAIN s) }

\* the snapshots that differ from data by the order of the accounts or by the
\* order of the positions inside one account
Reorderings(data) ==
    { [accounts |-> as] : as \in PermutedSeqs(Accounts(data)) }
    \cup UNION { { [accounts |->
                        [Accounts(data) EXCEPT ![i] = [@ EXCEPT !.positions = ps]]] :
                      ps \in PermutedSeqs(PositionsOf(Accounts(data)[i])) } :
                  i \in DOMAIN Accounts(data) }

\* C3: every position's weight is (position_value x pct / 100) divided by the
\* total value of the whole snapshot (all cash plus all position values), so
\* the returned volatility is the same for every permutation of the accounts
\* and of the positions inside an account.
C3_WeightsUseSnapshotTotal ==
    volatility.called =>
        /\ \A i \in DOMAIN volatility.entries :
              LET e == volatility.entries[i]
              IN  (InVolatilities(e.asset_class) /\ SnapshotTotal(portfolio_data) > 0) =>
                      e.added = RatioSquare(
                          Ratio(e.value * e.pct * volatilities[e.asset_class],
                                100 * SnapshotTotal(portfolio_data)))
        /\ \A other \in Reorderings(portfolio_data) :
              calculate_portfolio_volatility(other).value = volatility.value

(***************************************************************************)
(* Claims about calculate_withdrawal_sequencing, checked under             *)
(* SpecWithdrawal.                                                         *)
(***************************************************************************)
PlanEntriesAsClaimed ==
    \A i \in DOMAIN sequencing_plan.plan :
        LET e == sequencing_plan.plan[i]
        IN  /\ e.year = i
            /\ i <= 5 => (e.tax_rate = "15%" /\ e.source = "Taxable accounts")
            /\ i >= 6 => (e.tax_rate = "22%"
                            /\ e.source = "Tax-deferred accounts (IRA/401k)")

\* C4 as stated: exactly min(years, 10) entries for every integer years,
\* numbered 1..n in increasing order; year <= 5 carries 15% and a
\* taxable-accounts source, year >= 6 carries 22% and a tax-deferred source,
\* whatever the portfolio.
C4_MinYearsTenEntries ==
    sequencing_plan.called =>
        /\ Len(sequencing_plan.plan) = Min(years, 10)
        /\ PlanEntriesAsClaimed

\* C4 as amended: exactly max(0, min(years, 10)) entries (none for
\* years <= 0), numbered 1..n in increasing order, with the same two phases.
C4_ClampedYearsEntries ==
    sequencing_plan.called =>
        /\ Len(sequencing_plan.plan) = Max(0, Min(years, 10))
        /\ PlanEntriesAsClaimed

C4_Witness ==
    /\ sequencing_plan.called
    /\ years > 10
    /\ Len(sequencing_plan.plan) = 10
    /\ sequencing_plan.plan[6].tax_rate = "22%"
    /\ portfolio_data # <<>>

(***************************************************************************)
(* Claims about calculate_current_allocation, checked under SpecAllocation.*)
(***************************************************************************)
\* C9: for a snapshot of total value 0 (non-negative cash, quantities and
\* prices; no accounts included) calculate_current_allocation returns the map
\* with all five classes 0 and performs no division.
C9_ZeroTotalReturnsZeroMap ==
    (allocation.called /\ SnapshotTotal(portfolio_data) = 0) =>
        /\ allocation.raised = "none"
        /\ ~allocation.converted
        /\ allocation.values = ZeroAssetValues

C9_Witness ==
    /\ allocation.called
    /\ SnapshotTotal(portfolio_data) = 0
    /\ \E i \in DOMAIN SnapshotPositions(portfolio_data) :
          DictGet(SnapshotPositions(portfolio_data)[i], "quantity", 0) > 0

Unclassified(position) == AssetAllocation(position) = <<>>

HasValuedUnclassifiedPosition(data) ==
    \E i \in DOMAIN SnapshotPositions(data) :
        /\ Unclassified(SnapshotPositions(data)[i])
        /\ PositionValue(SnapshotPositions(data)[i]) > 0

\* cents of the class read from instrument key `key`, over the positions that
\* have an asset-class map
ClassifiedCents(data, key) ==
    SumSeq([i \in DOMAIN SnapshotPositions(data) |->
               LET position == SnapshotPositions(data)[i]
               IN  IF Unclassified(position) THEN 0
                   ELSE PositionValue(position)
                            * ODictGet(AssetAllocation(position), key, 0)])

\* the unclassified position counts in the denominator and in no class
UnclassifiedOnlyInDenominator ==
    LET total == SnapshotTotal(portfolio_data)
        pct(cents) == RoundDiv(cents * 100, total)
    IN  /\ allocation.raised = "none"
        /\ allocation.converted
        /\ allocation.values.cash = pct(100 * SnapshotCash(portfolio_data))
        /\ allocation.values.equity = pct(ClassifiedCents(portfolio_data, "equity"))
        /\ allocation.values.bonds = pct(ClassifiedCents(portfolio_data, "fixed_income"))
        /\ allocation.values.real_estate =
              pct(ClassifiedCents(portfolio_data, "real_estate"))
        /\ allocation.values.commodities =
              pct(ClassifiedCents(portfolio_data, "commodities"))

SumOfPercentages ==
    allocation.values.equity + allocation.values.bonds + allocation.values.real_estate
        + allocation.values.commodities + allocation.values.cash

\* every instrument's equity, fixed_income, real_estate and commodities
\* percentages sum to at most 100
MapsSumToAtMost100(data) ==
    \A i \in DOMAIN SnapshotPositions(data) :
        LET asset_allocation == AssetAllocation(SnapshotPositions(data)[i])
        IN  ODictGet(asset_allocation, "equity", 0)
                + ODictGet(asset_allocation, "fixed_income", 0)
                + ODictGet(asset_allocation, "real_estate", 0)
                + ODictGet(asset_allocation, "commodities", 0) <= 100

\* C10 as stated: a position whose instrument has no asset-class map adds its
\* full value to the denominator and 0 to every class, so when it has positive
\* value the five returned percentages sum to strictly less than 100.
C10_UnclassifiedSumBelow100 ==
    (allocation.called /\ HasValuedUnclassifiedPosition(portfolio_data)) =>
        /\ UnclassifiedOnlyInDenominator
        /\ SumOfPercentages < 100 * 100

\* C10 as amended: a position whose instrument has no asset-class map adds its
\* full value to the denominator and 0 to every class (nothing to cash); when
\* it has positive value and the class percentages of every instrument sum to
\* at most 100, the class dollar amounts sum to strictly less than the total
\* value, and the five returned percentages, each rounded to 2 decimals, sum
\* to at most 100.02.
C10_UnclassifiedDilutesValidMaps ==
    (allocation.called /\ HasValuedUnclassifiedPosition(portfolio_data)) =>
        /\ UnclassifiedOnlyInDenominator
        /\ MapsSumToAtMost100(portfolio_data) =>
              /\ 100 * SnapshotCash(portfolio_data)
                    + ClassifiedCents(portfolio_data, "equity")
                    + ClassifiedCents(portfolio_data, "fixed_income")
                    + ClassifiedCents(portfolio_data, "real_estate")
                    + ClassifiedCents(portfolio_data, "commodities")
                 < 100 * SnapshotTotal(portfolio_data)
              /\ SumOfPercentages <= 100 * 100 + 2

C10_Witness ==
    /\ allocation.called
    /\ HasValuedUnclassifiedPosition(portfolio_data)
    /\ MapsSumToAtMost100(portfolio_data)
    /\ allocation.values.equity > 0
    /\ allocation.values.cash > 0
    /\ SumOfPercentages < 100 * 100

\* cents of the class read from instrument key `key`: the sum over all
\* positions of quantity x price x pct
ClassCents(data, key) ==
    SumSeq([i \in DOMAIN SnapshotPositions(data) |->
               PositionValue(SnapshotPositions(data)[i])
                   * ODictGet(AssetAllocation(SnapshotPositions(data)[i]), key, 0)])

\* v, in hundredths of a percent, is 100 x cents / (100 x total) percent
\* rounded to 2 decimals: it is within half a hundredth of the quotient
IsPercentOfTotal(v, cents, total) ==
    /\ v = RoundDiv(cents * 100, total)
    /\ 2 * Abs(v * total - cents * 100) <= total

\* C11: for a snapshot of non-zero total value calculate_current_allocation
\* returns for each class 100 x class_dollars / total_value (as the 2-decimal
\* number the code's round yields), where cash dollars is the sum of the
\* accounts' cash balances and the equity / bonds / real_estate / commodities
\* dollars are the sums over all positions of quantity x price x pct / 100
\* with pct read from the instrument keys equity / fixed_income / real_estate
\* / commodities respectively.
C11_PercentOfTotalPerClass ==
    (allocation.called /\ SnapshotTotal(portfolio_data) # 0) =>
        LET total == SnapshotTotal(portfolio_data)
        IN  /\ allocation.raised = "none"
            /\ allocation.converted
            /\ DOMAIN allocation.values = DOMAIN ZeroAssetValues
            /\ IsPercentOfTotal(allocation.values.cash,
                                100 * SnapshotCash(portfolio_data), total)
            /\ IsPercentOfTotal(allocation.values.equity,
                                ClassCents(portfolio_data, "equity"), total)
            /\ IsPercentOfTotal(allocation.values.bonds,
                                ClassCents(portfolio_data, "fixed_income"), total)
            /\ IsPercentOfTotal(allocation.values.real_estate,
                                ClassCents(portfolio_data, "real_estate"), total)
            /\ IsPercentOfTotal(allocation.values.commodities,
                                ClassCents(portfolio_data, "commodities"), total)

C11_Witness ==
    /\ allocation.called
    /\ SnapshotTotal(portfolio_data) > 0
    /\ Len(Accounts(portfolio_data)) = 2
    /\ allocation.values.cash > 0
    /\ allocation.values.equity > 0
    /\ allocation.values.bonds > 0
    /\ allocation.values.real_estate > 0
    /\ allocation.values.commodities > 0

(***************************************************************************)
(* Claims about the rebalancer, checked under SpecRebalancer.              *)
(***************************************************************************)
TargetKeys == { target_allocation[i][1] : i \in DOMAIN target_allocation }

TargetIndex(asset_class) ==
    CHOOSE i \in DOMAIN target_allocation : target_allocation[i][1] = asset_class

TradesOf(asset_class) ==
    { j \in DOMAIN trades.trades : trades.trades[j].asset_class = asset_class }

\* C1: calculate_rebalancing_trades and estimate_transaction_costs raise no
\* exception for any allocation maps, any total value >= 0, any threshold >= 0
\* (0 included) and the empty trade list, and every ratio whose denominator is
\* 0 evaluates to 0 (the priority |drift| / threshold when threshold is 0, the
\* cost percentage when the volume is 0).
C1_NoExceptionRatiosDegradeToZero ==
    /\ trades.called =>
          /\ trades.raised = "none"
          /\ threshold = 0 =>
                \A j \in DOMAIN trades.trades : trades.trades[j].priority = <<0, 1>>
    /\ cost_estimate.called =>
          /\ cost_estimate.raised = "none"
          /\ cost_estimate.total_volume = 0 => cost_estimate.cost_percentage = 0

\* C5: exactly one trade for each key of target_allocation whose
\* |current_pct - target_pct| >= threshold (boundary included, current_pct 0
\* when the class is absent from current_allocation), none for the other keys
\* and none for a class that is only in current_allocation; the action is
\* "sell" exactly when drift > 0 and "buy" otherwise, and the amount is
\* |total_value * drift / 100|.
C5_OneTradePerDriftedTargetClass ==
    trades.called =>
        /\ \A i \in DOMAIN target_allocation :
              LET asset_class == target_allocation[i][1]
                  drift == DictGet(current_allocation, asset_class, 0)
                           - target_allocation[i][2]
              IN  Cardinality(TradesOf(asset_class)) =
                      IF Abs(drift) >= threshold THEN 1 ELSE 0
        /\ \A j \in DOMAIN trades.trades :
              LET t == trades.trades[j]
                  drift == DictGet(current_allocation, t.asset_class, 0) - t.target_pct
              IN  /\ t.asset_class \in TargetKeys
                  /\ t.target_pct = target_allocation[TargetIndex(t.asset_class)][2]
                  /\ t.drift_pct = drift
                  /\ (t.action = "sell") <=> (drift > 0)
                  /\ (t.action = "buy") <=> ~(drift > 0)
                  /\ t.amount = Abs(total_portfolio_value * drift)

\* C6: the returned list is in non-increasing order of priority
\* (= |drift| / threshold), and two trades of equal priority appear in the
\* iteration order of their keys in target_allocation.
C6_SortedByPriorityStableTies ==
    (trades.called /\ trades.raised = "none") =>
        /\ \A j \in DOMAIN trades.trades :
              LET t == trades.trades[j]
              IN  t.priority[1] * threshold = Abs(t.drift_pct) * t.priority[2]
        /\ \A i, j \in DOMAIN trades.trades :
              i < j =>
                LET a == trades.trades[i]
                    b == trades.trades[j]
                IN  /\ ~RatioLess(a.priority, b.priority)
                    /\ a.priority = b.priority =>
                          TargetIndex(a.asset_class) < TargetIndex(b.asset_class)

C6_Witness ==
    /\ trades.called /\ trades.raised = "none"
    /\ Len(trades.trades) = 3
    /\ trades.trades[1].priority = trades.trades[2].priority
    /\ RatioLess(trades.trades[3].priority, trades.trades[2].priority)
    /\ TargetIndex(trades.trades[3].asset_class) = 1

\* C7: for fixed allocations and total value and thresholds 0 < t1 <= t2, the
\* classes traded under t2 are a subset of the classes traded under t1, so
\* the number of trades never increases when the threshold increases.
C7_MonotonicInThreshold ==
    (trades.called /\ prev_trades.called) =>
        /\ (0 < prev_trades.threshold /\ prev_trades.threshold <= threshold) =>
              /\ trades.raised = "none" /\ prev_trades.raised = "none"
              /\ TradedClasses(trades) \subseteq prev_trades.classes
              /\ Len(trades.trades) <= Cardinality(prev_trades.classes)
        /\ (0 < threshold /\ threshold <= prev_trades.threshold) =>
              /\ trades.raised = "none" /\ prev_trades.raised = "none"
              /\ prev_trades.classes \subseteq TradedClasses(trades)
              /\ Cardinality(prev_trades.classes) <= Len(trades.trades)

C7_Witness ==
    /\ trades.called /\ prev_trades.called
    /\ 0 < prev_trades.threshold /\ prev_trades.threshold < threshold
    /\ TradedClasses(trades) # {}
    /\ TradedClasses(trades) # prev_trades.classes
    /\ TradedClasses(trades) \subseteq prev_trades.classes

IsExampleInput ==
    /\ current_allocation = ExampleCurrent
    /\ target_allocation = ExampleTarget
    /\ total_portfolio_value = 100000

\* C8: for the documented example (target 60/30/5/0/5, current 70/20/5/0/5,
\* total value 100000, threshold 5) the result is 'sell 10000 equity,
\* priority 2.0' followed by 'buy 10000 bonds, priority 2.0' and nothing else.
C8_DocumentedExample ==
    (IsExampleInput /\ trades.called /\ threshold = 5) =>
        /\ trades.raised = "none"
        /\ Len(trades.trades) = 2
        /\ trades.trades[1].asset_class = "equity"
        /\ trades.trades[1].action = "sell"
        /\ trades.trades[1].amount = 10000 * 100
        /\ trades.trades[1].priority = <<2, 1>>
        /\ trades.trades[2].asset_class = "bonds"
        /\ trades.trades[2].action = "buy"
        /\ trades.trades[2].amount = 10000 * 100
        /\ trades.trades[2].priority = <<2, 1>>

C8_Witness ==
    /\ IsExampleInput /\ trades.called /\ threshold = 5
    /\ Len(trades.trades) = 2

(***************************************************************************)
(* Claims about the tax optimizer, checked under SpecTax.                  *)
(***************************************************************************)
\* the number of positions held by the first a accounts
RECURSIVE PositionsBefore(_, _)
PositionsBefore(data, a) ==
    IF a = 0 THEN 0
    ELSE PositionsBefore(data, a - 1) + Len(PositionsOf(Accounts(data)[a]))

\* the account that holds the i-th position of the snapshot
OwnerOf(data, i) ==
    Accounts(data)[CHOOSE a \in DOMAIN Accounts(data) :
                      PositionsBefore(data, a - 1) < i /\ i <= PositionsBefore(data, a)]

IsExamplePosition(position) ==
    /\ DictGet(position, "quantity", 0) = 50
    /\ DictGet(position, "cost_basis", 0) = 200 * 100
    /\ DictGet(Instrument(position), "current_price", DefaultPrice * 100) = 220 * 100

\* C15: calculate_unrealized_gains returns exactly one entry per position, in
\* account order then position order, each carrying the account type of the
\* account that owns it, with unrealized_gain = quantity x price - quantity x
\* cost_basis and gain_percentage = unrealized_gain / total_cost x 100 (as the
\* 2-decimal number the code's round yields), or 0 when total_cost is 0; for
\* quantity 50, cost basis 200 and price 220 the entry has unrealized_gain
\* 1000 and gain_percentage 10.
C15_OneGainEntryPerPosition ==
    positions_analysis.called =>
        LET held == SnapshotPositions(portfolio_data)
            entries == positions_analysis.positions
        IN  /\ Len(entries) = Len(held)
            /\ \A i \in DOMAIN held :
                  LET quantity == DictGet(held[i], "quantity", 0)
                      price == DictGet(Instrument(held[i]), "current_price",
                                       DefaultPrice * 100)
                      total_cost == quantity * DictGet(held[i], "cost_basis", 0)
                      gain == quantity * price - total_cost
                  IN  /\ entries[i].symbol = DictGet(held[i], "symbol", "")
                      /\ entries[i].account_type =
                            DictGet(OwnerOf(portfolio_data, i), "account_type", "taxable")
                      /\ entries[i].unrealized_gain = gain
                      /\ total_cost = 0 => entries[i].gain_percentage = 0
                      /\ total_cost # 0 =>
                            2 * Abs(entries[i].gain_percentage * total_cost - gain * 10000)
                                <= total_cost
                      /\ IsExamplePosition(held[i]) =>
                            /\ entries[i].unrealized_gain = 1000 * 100
                            /\ entries[i].gain_percentage = 10 * 100

C15_Witness ==
    /\ positions_analysis.called
    /\ Len(Accounts(portfolio_data)) = 2
    /\ Len(positions_analysis.positions) = 2
    /\ positions_analysis.positions[1].account_type = "roth_ira"
    /\ positions_analysis.positions[1].gain_percentage < 0
    /\ positions_analysis.positions[2].account_type = "taxable"
    /\ IsExamplePosition(SnapshotPositions(portfolio_data)[2])
    /\ positions_analysis.positions[2].gain_percentage = 10 * 100

\* the positions of the gains list that sit in an account whose type is
\* 'taxable' and have a strictly negative unrealized gain
Qualifying ==
    { i \in DOMAIN positions_analysis.positions :
        /\ DictGet(OwnerOf(portfolio_data, i), "account_type", "taxable") = "taxable"
        /\ positions_analysis.positions[i].unrealized_gain < 0 }

\* the loss of position i of the gains list when it qualifies, else 0
QualifyingLoss(i) ==
    IF i \in Qualifying THEN -positions_analysis.positions[i].unrealized_gain ELSE 0

TotalQualifyingLoss ==
    SumSeq([i \in DOMAIN positions_analysis.positions |-> QualifyingLoss(i)])

\* the totals are taken over all qualifying positions and over nothing else
TotalsOverQualifying ==
    /\ tlh_opportunities.number_of_positions = Cardinality(Qualifying)
    /\ tlh_opportunities.total_harvestable_loss = TotalQualifyingLoss
    /\ 2 * Abs(tlh_opportunities.potential_tax_savings * 100
                 - TotalQualifyingLoss * combined_rate) <= 100

\* C12: identify_tax_loss_harvesting counts a position exactly when its
\* account_type is 'taxable' and its unrealized gain is strictly negative; a
\* position with zero or positive gain, and every position of a non-taxable
\* account whatever its loss, contributes nothing to harvestable_positions,
\* total_harvestable_loss, potential_tax_savings or number_of_positions.
C12_OnlyTaxableLossesCount ==
    tlh_opportunities.called =>
        /\ TotalsOverQualifying
        /\ \A j \in DOMAIN tlh_opportunities.harvestable_positions :
              LET h == tlh_opportunities.harvestable_positions[j]
              IN  \E i \in Qualifying :
                      /\ positions_analysis.positions[i].symbol = h.symbol
                      /\ QualifyingLoss(i) = h.loss_amount
        /\ \A i \in DOMAIN positions_analysis.positions :
              (i \notin Qualifying /\ positions_analysis.positions[i].symbol # "") =>
                  \A j \in DOMAIN tlh_opportunities.harvestable_positions :
                      tlh_opportunities.harvestable_positions[j].symbol
                          # positions_analysis.positions[i].symbol

C12_Witness ==
    /\ tlh_opportunities.called
    /\ combined_rate > 0
    /\ Len(positions_analysis.positions) = 2
    /\ positions_analysis.positions[1].account_type = "roth_ira"
    /\ positions_analysis.positions[1].unrealized_gain < 0
    /\ positions_analysis.positions[2].account_type = "taxable"
    /\ positions_analysis.positions[2].unrealized_gain < 0
    /\ tlh_opportunities.number_of_positions = 1
    /\ tlh_opportunities.harvestable_positions[1].symbol = Symbol(2)

ListedLosses ==
    { tlh_opportunities.harvestable_positions[j].loss_amount :
        j \in DOMAIN tlh_opportunities.harvestable_positions }

\* C13: harvestable_positions holds at most 10 entries, namely the qualifying
\* positions of largest loss_amount in non-increasing loss order, while
\* total_harvestable_loss, potential_tax_savings (= total loss x tax rate, as
\* the 2-decimal number the code's round yields) and number_of_positions are
\* computed over all qualifying positions; with more than 10 qualifying
\* positions number_of_positions exceeds the length of harvestable_positions.
C13_TopTenLossesTotalsOverAll ==
    tlh_opportunities.called =>
        LET listed == tlh_opportunities.harvestable_positions
        IN  /\ Len(listed) <= 10
            /\ Len(listed) = Min(Cardinality(Qualifying), 10)
            /\ \A j \in DOMAIN listed : j > 1 => listed[j - 1].loss_amount >= listed[j].loss_amount
            /\ \A i, j \in DOMAIN listed : i # j => listed[i].symbol # listed[j].symbol
            /\ \A j \in DOMAIN listed :
                  \E i \in Qualifying :
                      /\ positions_analysis.positions[i].symbol = listed[j].symbol
                      /\ QualifyingLoss(i) = listed[j].loss_amount
            /\ \A i \in Qualifying :
                  \/ \E j \in DOMAIN listed :
                        listed[j].symbol = positions_analysis.positions[i].symbol
                  \/ \A j \in DOMAIN listed : listed[j].loss_amount >= QualifyingLoss(i)
            /\ TotalsOverQualifying
            /\ Cardinality(Qualifying) > 10 =>
                  tlh_opportunities.number_of_positions > Len(listed)

C13_Witness ==
    /\ tlh_opportunities.called
    /\ combined_rate > 0
    /\ tlh_opportunities.number_of_positions = 12
    /\ Len(tlh_opportunities.harvestable_positions) = 10
    /\ Cardinality(ListedLosses) = 2
    /\ tlh_opportunities.total_harvestable_loss
          > SumSeq([j \in DOMAIN tlh_opportunities.harvestable_positions |->
                       tlh_opportunities.harvestable_positions[j].loss_amount])

\* hundredths of a cent of the class read from instrument key `key`, over the
\* positions whose account type is the string 'taxable' (in_taxable) or any
\* other string (~in_taxable)
BucketAmount(in_taxable, key) ==
    SumSeq([i \in DOMAIN positions_analysis.positions |->
               LET pos == positions_analysis.positions[i]
                   owner_type == DictGet(OwnerOf(portfolio_data, i), "account_type", "taxable")
               IN  IF (owner_type = "taxable") = in_taxable
                   THEN pos.market_value
                            * ODictGet(DictGet(pos.instrument, "allocation_asset_class", <<>>),
                                       key, 0)
                   ELSE 0])

\* v, in cents, is amount (hundredths of a cent) rounded to 2 decimals
IsRoundedAmount(v, amount) == 2 * Abs(v * 100 - amount) <= 100

BucketsAsClaimed ==
    /\ IsRoundedAmount(asset_location.taxable_accounts.equity, BucketAmount(TRUE, "equity"))
    /\ IsRoundedAmount(asset_location.taxable_accounts.bonds, BucketAmount(TRUE, "fixed_income"))
    /\ IsRoundedAmount(asset_location.taxable_accounts.reits, BucketAmount(TRUE, "real_estate"))
    /\ IsRoundedAmount(asset_location.tax_deferred_accounts.equity,
                       BucketAmount(FALSE, "equity"))
    /\ IsRoundedAmount(asset_location.tax_deferred_accounts.bonds,
                       BucketAmount(FALSE, "fixed_income"))
    /\ IsRoundedAmount(asset_location.tax_deferred_accounts.reits,
                       BucketAmount(FALSE, "real_estate"))
    /\ asset_location.inefficiencies.bonds_in_taxable = asset_location.taxable_accounts.bonds
    /\ asset_location.inefficiencies.reits_in_taxable = asset_location.taxable_accounts.reits

\* the gains list with the equity entry removed from every instrument
WithoutEquity(positions) ==
    [i \in DOMAIN positions |->
        [positions[i] EXCEPT !.instrument =
            IF "allocation_asset_class" \in DOMAIN @
            THEN [@ EXCEPT !.allocation_asset_class =
                     SelectSeq(@, LAMBDA entry : entry[1] # "equity")]
            ELSE @]]

EquityDoesNotCount ==
    analyze_asset_location(portfolio_data,
                           WithoutEquity(positions_analysis.positions)).inefficiencies
        = asset_location.inefficiencies

\* C14 as stated: each position's market_value x pct / 100 for equity,
\* fixed_income (reported as bonds) and real_estate (reported as reits) goes
\* to the taxable bucket exactly when the account type is the string
\* 'taxable' and to the tax-deferred bucket for every other string;
\* total_inefficient equals bonds_in_taxable + reits_in_taxable and does not
\* change with the amount of equity held in taxable accounts.
C14_TotalIsSumOfReportedFields ==
    asset_location.called =>
        /\ BucketsAsClaimed
        /\ asset_location.inefficiencies.total_inefficient =
              asset_location.inefficiencies.bonds_in_taxable
                  + asset_location.inefficiencies.reits_in_taxable
        /\ EquityDoesNotCount

\* C14 as amended: the same buckets; total_inefficient is the sum of the
\* taxable bonds and reits amounts before rounding, rounded to 2 decimals, so
\* it is within 0.01 of bonds_in_taxable + reits_in_taxable (each rounded on
\* its own), and it does not change with the equity held in taxable accounts.
C14_TotalIsRoundedSumOfBuckets ==
    asset_location.called =>
        /\ BucketsAsClaimed
        /\ IsRoundedAmount(asset_location.inefficiencies.total_inefficient,
                           BucketAmount(TRUE, "fixed_income")
                               + BucketAmount(TRUE, "real_estate"))
        /\ Abs(asset_location.inefficiencies.total_inefficient
                 - (asset_location.inefficiencies.bonds_in_taxable
                      + asset_location.inefficiencies.reits_in_taxable)) <= 1
        /\ EquityDoesNotCount

C14_Witness ==
    /\ asset_location.called
    /\ Len(positions_analysis.positions) = 2
    /\ positions_analysis.positions[1].account_type = "Taxable"
    /\ asset_location.tax_deferred_accounts.bonds > 0
    /\ positions_analysis.positions[2].account_type = "taxable"
    /\ BucketAmount(TRUE, "equity") > 0
    /\ asset_location.inefficiencies.total_inefficient
          # asset_location.inefficiencies.bonds_in_taxable
              + asset_location.inefficiencies.reits_in_taxable

(***************************************************************************)
(* Claims about identify_concentration_risks, checked under                *)
(* SpecConcentration.                                                      *)
(***************************************************************************)
\* the place in the snapshot (account order, then position order) of the
\* position carrying the symbol
EncounterIndex(symbol) ==
    CHOOSE k \in DOMAIN SnapshotPositions(portfolio_data) :
        DictGet(SnapshotPositions(portfolio_data)[k], "symbol", "") = symbol

\* entry a of the list ranks before the position met at place k with value v
RanksBefore(a, v, k) ==
    \/ a.value > v
    \/ a.value = v /\ EncounterIndex(a.symbol) < k

\* the snapshot's symbols are pairwise distinct
DistinctSymbols ==
    \A i, j \in DOMAIN SnapshotPositions(portfolio_data) :
        i # j => DictGet(SnapshotPositions(portfolio_data)[i], "symbol", "")
                   # DictGet(SnapshotPositions(portfolio_data)[j], "symbol", "")

\* C16: identify_concentration_risks lists at most the 10 positions of
\* largest market value, in non-increasing value order with equal-valued
\* positions kept in the order they were encountered; cash is never an entry
\* of that list but is part of the denominator of top_10_concentration_pct
\* (reported as the 2-decimal number the code's round yields);
\* number_of_positions counts every position of the snapshot, not only the
\* listed ones.
C16_TopTenHoldingsStableOrder ==
    concentration.called =>
        LET held == SnapshotPositions(portfolio_data)
            listed == concentration.top_10_holdings
            total == SnapshotTotal(portfolio_data)
        IN  /\ Len(listed) = Min(Len(held), 10)
            /\ concentration.number_of_positions = Len(held)
            /\ \A j \in DOMAIN listed : j > 1 => listed[j - 1].value >= listed[j].value
            /\ DistinctSymbols =>
                  /\ \A j \in DOMAIN listed :
                        /\ \E k \in DOMAIN held :
                              DictGet(held[k], "symbol", "") = listed[j].symbol
                        /\ listed[j].value = PositionValue(held[EncounterIndex(listed[j].symbol)])
                  /\ \A i, j \in DOMAIN listed :
                        i < j => RanksBefore(listed[i], listed[j].value,
                                             EncounterIndex(listed[j].symbol))
                  /\ \A k \in DOMAIN held :
                        \/ \E j \in DOMAIN listed : EncounterIndex(listed[j].symbol) = k
                        \/ \A j \in DOMAIN listed :
                              RanksBefore(listed[j], PositionValue(held[k]), k)
            /\ total > 0 =>
                  2 * Abs(concentration.top_10_concentration_pct * total
                            - SumOfValues(listed) * 10000) <= total
            /\ total = 0 => concentration.top_10_concentration_pct = 0

C16_Witness ==
    /\ concentration.called
    /\ SnapshotCash(portfolio_data) > 0
    /\ concentration.number_of_positions = 12
    /\ Len(concentration.top_10_holdings) = 10
    /\ concentration.top_10_holdings[1].value > concentration.top_10_holdings[10].value
    /\ concentration.top_10_holdings[1].value = concentration.top_10_holdings[2].value
    /\ concentration.top_10_concentration_pct < 100 * 100
    /\ SumOfValues(concentration.top_10_holdings) + SnapshotCash(portfolio_data)
          < SnapshotTotal(portfolio_data)

\* every <<key, pct, value>> met while iterating the positions and, inside a
\* position, the map under instrument key `field`
RECURSIVE ExposureEntries(_, _)
ExposureEntries(positions, field) ==
    IF positions = <<>> THEN <<>>
    ELSE LET entries == DictGet(Instrument(Head(positions)), field, <<>>)
         IN  [i \in DOMAIN entries |->
                 <<entries[i][1], entries[i][2], PositionValue(Head(positions))>>]
             \o ExposureEntries(Tail(positions), field)

\* accumulated exposure of key, in cents
ExposureOf(entries, key) ==
    SumSeq([i \in DOMAIN entries |->
               IF entries[i][1] = key THEN entries[i][3] * entries[i][2] ELSE 0])

FirstEncounter(entries, key) ==
    CHOOSE i \in DOMAIN entries :
        /\ entries[i][1] = key
        /\ \A j \in DOMAIN entries : entries[j][1] = key => i <= j

\* top and top_pct are as claimed for the map under instrument key `field`
TopAsClaimed(top, top_pct, field) ==
    LET entries == ExposureEntries(SnapshotPositions(portfolio_data), field)
        total == SnapshotTotal(portfolio_data)
    IN  IF entries = <<>>
        THEN top = "None" /\ top_pct = 0
        ELSE /\ \E i \in DOMAIN entries : entries[i][1] = top
             /\ \A i \in DOMAIN entries :
                   LET other == entries[i][1]
                   IN  \/ ExposureOf(entries, top) > ExposureOf(entries, other)
                       \/ /\ ExposureOf(entries, top) = ExposureOf(entries, other)
                          /\ FirstEncounter(entries, top) <= FirstEncounter(entries, other)
             /\ total > 0 =>
                   2 * Abs(top_pct * total - ExposureOf(entries, top) * 100) <= total
             /\ total = 0 => top_pct = 0

\* C17: identify_concentration_risks reports as top_sector (resp. top_region)
\* the sector (region) with the largest accumulated dollar exposure, the sum
\* over all positions of value x pct / 100; when several have the same
\* largest exposure it reports the one whose key was first encountered while
\* iterating the positions; when no position has sector (region) data it
\* reports 'None' with 0 percent.
C17_TopSectorFirstEncounteredOnTies ==
    concentration.called =>
        /\ TopAsClaimed(concentration.top_sector, concentration.top_sector_pct,
                        "allocation_sectors")
        /\ TopAsClaimed(concentration.top_region, concentration.top_region_pct,
                        "allocation_regions")

C17_Witness ==
    /\ concentration.called
    /\ LET entries == ExposureEntries(SnapshotPositions(portfolio_data), "allocation_sectors")
       IN  /\ concentration.top_sector = "healthcare"
           /\ ExposureOf(entries, "healthcare") = ExposureOf(entries, "technology")
           /\ ExposureOf(entries, "healthcare") > 0
           /\ FirstEncounter(entries, "healthcare") < FirstEncounter(entries, "technology")
    /\ concentration.top_sector_pct > 0
    /\ concentration.top_region = "None"
    /\ concentration.top_region_pct = 0

(***************************************************************************)
(* Claim about calculate_value_at_risk, checked under SpecVar.             *)
(***************************************************************************)
\* v, in cents, is portfolio_value x vol / 100 x z (vol in hundredths of a
\* percent, z in hundredths) as the 2-decimal number the code's round yields
IsVarWithZ(v, portfolio_value, vol, z) ==
    LET whole == (portfolio_value \div 10000) * vol * z
        rest == (portfolio_value % 10000) * vol * z
    IN  2 * Abs((v - whole) * 10000 - rest) <= 10000

\* C18: calculate_value_at_risk(V, vol, c) equals V x vol/100 x 1.65 when c
\* is exactly 0.95 and V x vol/100 x 2.33 for every other value of c (0.99,
\* 0.90 and any other alike, with no interpolation); hence it is 0 for every
\* V when vol is 0, and 165000 for V = 1000000, vol = 10, c = 0.95.
C18_ValueAtRiskTwoZScores ==
    var_95.called =>
        /\ var_args.confidence = 9500 =>
              IsVarWithZ(var_95.value, var_args.portfolio_value, var_args.volatility, 165)
        /\ var_args.confidence # 9500 =>
              IsVarWithZ(var_95.value, var_args.portfolio_value, var_args.volatility, 233)
        /\ var_args.volatility = 0 => var_95.value = 0
        /\ (var_args.portfolio_value = 1000000 /\ var_args.volatility = 10 * 100
              /\ var_args.confidence = 9500) => var_95.value = 165000 * 100

C18_Witness ==
    /\ var_95.called
    /\ var_args.portfolio_value = 1000000
    /\ var_args.volatility = 10 * 100
    /\ var_args.confidence = 9000
    /\ var_95.value = 233000 * 100

(***************************************************************************)
(* Claim about estimate_transaction_costs, checked under SpecRebalancer.   *)
(***************************************************************************)
\* C19: estimate_transaction_costs returns number_of_trades = the number of
\* trades, total_transaction_cost = number_of_trades x cost_per_trade,
\* total_volume = the sum of the trades' amounts, and cost_percentage =
\* total_transaction_cost / total_volume x 100 (as the 4-decimal number the
\* code's round yields), which is 0 whenever total_volume is 0 (the empty
\* trade list included).
C19_TransactionCostEstimate ==
    cost_estimate.called =>
        LET volume == SumSeq([j \in DOMAIN trades.trades |-> trades.trades[j].amount])
            cost == Len(trades.trades) * cost_estimate.cost_per_trade
        IN  /\ cost_estimate.number_of_trades = Len(trades.trades)
            /\ cost_estimate.total_transaction_cost = cost
            /\ cost_estimate.total_volume = volume
            /\ volume = 0 => cost_estimate.cost_percentage = 0
            /\ volume # 0 =>
                  2 * Abs(cost_estimate.cost_percentage * volume - cost * 1000000) <= volume

C19_Witness ==
    /\ cost_estimate.called
    /\ cost_estimate.cost_per_trade > 0
    /\ cost_estimate.number_of_trades = 2
    /\ cost_estimate.total_volume = 3
    /\ cost_estimate.cost_percentage > 0
    /\ cost_estimate.cost_percentage * cost_estimate.total_volume
          # cost_estimate.total_transaction_cost * 1000000

(***************************************************************************)
(* Claim about all analyzers, checked under SpecEngine.                    *)
(***************************************************************************)
EngineArguments ==
    <<portfolio_data, current_allocation, target_allocation, total_portfolio_value,
      threshold, annual_withdrawal, years, combined_rate>>

\* every analyzer's latest result equals the result of its first call
RepeatedCallsAgree ==
    \A a \in Analyzers :
        last_result[a].calls > 0 =>
            /\ first_result[a].calls = 1
            /\ last_result[a].result = first_result[a].result

IsEmptySnapshot(data) ==
    \A i \in DOMAIN Accounts(data) :
        /\ CashBalance(Accounts(data)[i]) = 0
        /\ PositionsOf(Accounts(data)[i]) = <<>>

EmptyConcentration ==
    [top_10_holdings |-> <<>>, top_10_concentration_pct |-> 0,
     top_sector |-> "None", top_sector_pct |-> 0,
     top_region |-> "None", top_region_pct |-> 0, number_of_positions |-> 0]

EmptyHarvesting ==
    [harvestable_positions |-> <<>>, total_harvestable_loss |-> 0,
     potential_tax_savings |-> 0, number_of_positions |-> 0]

EmptyLocation ==
    [taxable_accounts |-> [equity |-> 0, bonds |-> 0, reits |-> 0],
     tax_deferred_accounts |-> [equity |-> 0, bonds |-> 0, reits |-> 0],
     inefficiencies |-> [bonds_in_taxable |-> 0, reits_in_taxable |-> 0,
                         total_inefficient |-> 0]]

ResultOnEmpty(a) ==
    CASE a = "calculate_portfolio_volatility" -> 0
      [] a = "identify_concentration_risks" -> EmptyConcentration
      [] a = "calculate_unrealized_gains" -> <<>>
      [] a = "identify_tax_loss_harvesting" -> EmptyHarvesting
      [] OTHER -> EmptyLocation

\* C21: for a snapshot with no accounts, and for one whose accounts have zero
\* cash and no positions, none of the risk and tax functions raises:
\* calculate_portfolio_volatility returns 0, identify_concentration_risks
\* returns an empty holdings list with all percentages 0 and
\* number_of_positions 0, calculate_unrealized_gains returns the empty list,
\* and identify_tax_loss_harvesting and analyze_asset_location applied to
\* that empty list return all-zero totals.
C21_EmptySnapshotGivesZeroResults ==
    IsEmptySnapshot(portfolio_data) =>
        /\ calculate_portfolio_volatility(portfolio_data).raised = "none"
        /\ \A a \in { "calculate_portfolio_volatility", "identify_concentration_risks",
                      "calculate_unrealized_gains", "identify_tax_loss_harvesting",
                      "analyze_asset_location" } :
              /\ a \in DOMAIN last_result
              /\ last_result[a].calls > 0
              => last_result[a].result = ResultOnEmpty(a)

C21_Witness ==
    /\ IsEmptySnapshot(portfolio_data)
    /\ Len(Accounts(portfolio_data)) > 0
    /\ last_result["calculate_unrealized_gains"].calls > 0
    /\ last_result["identify_tax_loss_harvesting"].calls > 0
    /\ last_result["analyze_asset_location"].calls > 0

(***************************************************************************)
(* Claim about the file tools, checked under SpecFiles.                    *)
(***************************************************************************)
\* the path is the sandbox directory or lies inside it
InSandbox(path) == StartsWithComponents(path, SandboxDir)

\* C22: _get_safe_path returns a path only when the resolved path is the
\* sandbox directory itself or lies inside it; for every filename that
\* resolves outside the sandbox directory (through '..' components, an
\* absolute path, or a sibling directory whose name merely starts with the
\* sandbox directory's name) it returns None, so read_file, write_file,
\* list_files and delete_file never read, create, list or delete anything
\* outside the sandbox.
C22_ToolsStayInsideSandbox ==
    /\ file_result.path # <<>> => InSandbox(file_result.path[1])
    /\ file_result.outcome \in {"read", "written", "listed", "deleted"} =>
          InSandbox(file_result.path[1])
    /\ \A path \in sandbox_files.files \cup sandbox_files.dirs :
          InSandbox(path) \/ \E fs \in InitialFileSystems : Exists(fs, path)

(***************************************************************************)
(* Claims about FileMemoryStore, checked under SpecMemory.                 *)
(***************************************************************************)
NoSessionDeleted == \A a \in AgentIds : ~saved[a].deleted

\* the latest call was a load for an agent id whose latest call of the
\* session was delete_session
LoadedAfterDelete ==
    /\ loaded.op \in {"load_todos", "load_agent_state"}
    /\ saved[loaded.agent_id].deleted

\* C23: in FileMemoryStore, load_todos(a) returns the todos given to the
\* most recent save_todos(a) ([] if there was none) and load_agent_state(a)
\* returns the state given to the most recent save_agent_state(a) (None if
\* there was none), for every agent id a and regardless of any save_todos
\* or save_agent_state calls made for other agent ids in between.
C23_LoadReturnsLatestSave ==
    NoSessionDeleted =>
        /\ loaded.op = "load_todos" =>
              loaded.result = IF saved[loaded.agent_id].todos = <<>> THEN <<>>
                              ELSE saved[loaded.agent_id].todos[1]
        /\ loaded.op = "load_agent_state" =>
              loaded.result = saved[loaded.agent_id].state

\* C24: after FileMemoryStore.delete_session(a) has been called,
\* load_todos(a) returns [] and load_agent_state(a) returns None, whether a
\* had todos, state, both or neither saved before the call.
C24_NothingLoadedAfterDelete ==
    LoadedAfterDelete => loaded.result = <<>>

(***************************************************************************)
(* Claims about lambda_handler and create_agent, checked under SpecLambda. *)
(***************************************************************************)
RiskRunOnZeroValue ==
    /\ invocation.handler = "risk_analyzer"
    /\ invocation.pc # "invoked"
    /\ SnapshotTotal(portfolio_data) = 0

\* C25: create_agent of the risk analyzer builds its task text without
\* raising for a snapshot whose total portfolio value is 0: the 'Maximum
\* Expected Loss' percentage var_95 / total_value x 100 comes out as 0
\* instead of dividing by zero, so a zero-value portfolio does not make the
\* risk Lambda answer with statusCode 500.
C25_ZeroValueTaskTextBuilt ==
    RiskRunOnZeroValue =>
        \A i \in DOMAIN invocation.attempts :
            invocation.attempts[i].statement # "create_agent"

\* C30: within one lambda_handler invocation the agent run is attempted at
\* most 5 times; a further attempt happens only after a RateLimitError, an
\* AgentTemporaryError or a timeout, any other exception ends the
\* invocation after that single attempt, and in every failing case
\* lambda_handler returns a response with statusCode 500 instead of raising.
C30_AtMostFiveAttemptsThenStatus500 ==
    LET attempts == invocation.attempts
        n == Len(attempts)
    IN  /\ n <= 5
        /\ \A i \in 1 .. n - 1 :
              attempts[i].raised \in {"RateLimitError", "AgentTemporaryError", "TimeoutError"}
        /\ n > 0 /\ attempts[n].raised \notin
                       {"none", "RateLimitError", "AgentTemporaryError", "TimeoutError"} =>
              /\ invocation.pc = "returned"
              /\ invocation.statusCode = 500
        /\ n = 5 /\ attempts[n].raised # "none" =>
              /\ invocation.pc = "returned"
              /\ invocation.statusCode = 500
        /\ invocation.pc = "returned" /\ n > 0 =>
              invocation.statusCode = IF attempts[n].raised = "none" THEN 200 ELSE 500
        /\ invocation.pc = "running" =>
              n < 5 /\ (n > 0 => attempts[n].raised # "none")

C30_Witness ==
    /\ Len(invocation.attempts) = 5
    /\ invocation.attempts[5].raised = "AgentTemporaryError"
    /\ invocation.attempts[1].raised = "RateLimitError"
    /\ invocation.statusCode = 500

\* ------------------------------------------------------------------------
\* C26: can_generate_idea refuses, with a reason, exactly when the tier's
\* daily limit is finite and the daily count has reached it or the tier's
\* monthly limit is finite and the monthly count has reached it, and
\* otherwise allows with an empty reason; a limit of -1 never blocks, and a
\* string that is no known tier is judged by the free tier's 3 per day and
\* 30 per month.
\* ------------------------------------------------------------------------
ExpectedDailyLimit(tier) ==
    CASE tier = "basic_plan" -> 20
      [] tier = "premium_subscription" -> 100
      [] tier = "enterprise_plan" -> -1
      [] OTHER -> 3

ExpectedMonthlyLimit(tier) ==
    CASE tier = "basic_plan" -> 300
      [] tier = "premium_subscription" -> 2000
      [] tier = "enterprise_plan" -> -1
      [] OTHER -> 30

QuotaExhausted(check) ==
    \/ /\ ExpectedDailyLimit(check.tier) # -1
       /\ check.daily_count >= ExpectedDailyLimit(check.tier)
    \/ /\ ExpectedMonthlyLimit(check.tier) # -1
       /\ check.monthly_count >= ExpectedMonthlyLimit(check.tier)

C26_RefusedExactlyAtFiniteLimit ==
    (idea_check # <<>> /\ idea_check.result # <<>>) =>
        LET result == idea_check.result[1]
        IN  /\ result.can_generate = ~QuotaExhausted(idea_check)
            /\ result.can_generate => result.reason = ""
            /\ ~result.can_generate => result.reason # ""

\* refused at exactly the free tier's daily limit under an unknown tier
\* string, and allowed far above every finite limit under the unlimited tier
C26_Witness ==
    /\ idea_check # <<>>
    /\ idea_check.result # <<>>
    /\ idea_check.tier \notin SubscriptionTier
    /\ idea_check.daily_count = 3
    /\ idea_check.monthly_count < 30
    /\ ~idea_check.result[1].can_generate

\* ------------------------------------------------------------------------
\* C28: in every state reached from an empty tracker by track_idea_generation,
\* get_usage_stats and get_analytics calls under a clock that never runs
\* backwards, each user's counters satisfy
\* daily_ideas <= monthly_ideas <= total_ideas.
\* ------------------------------------------------------------------------
C28_DailyWithinMonthlyWithinTotal ==
    \A user_id \in DOMAIN usage :
        /\ usage[user_id].daily_ideas <= usage[user_id].monthly_ideas
        /\ usage[user_id].monthly_ideas <= usage[user_id].total_ideas

\* a user counted before and after a month rolled over and again after a
\* day rolled over inside the month
C28_Witness ==
    \E user_id \in DOMAIN usage :
        /\ 0 < usage[user_id].daily_ideas
        /\ usage[user_id].daily_ideas < usage[user_id].monthly_ideas
        /\ usage[user_id].monthly_ideas < usage[user_id].total_ideas

\* ------------------------------------------------------------------------
\* C27: for a user whose tier has a finite daily limit and whose daily
\* count starts at 0, under any interleaving of concurrently handled
\* POST /api requests within one calendar day the daily_ideas counter never
\* exceeds the daily limit, and within one month monthly_ideas never
\* exceeds the monthly limit.
\* ------------------------------------------------------------------------
C27_CountersWithinTierLimits ==
    \A request \in BagToSet(requests) :
        LET limits == get_tier_limits(request.subscription_plan)
            user_id == request.user_id
        IN  user_id \in DOMAIN usage =>
               /\ (DayOf(now) = 0 /\ limits.ideas_per_day # Unlimited) =>
                     usage[user_id].daily_ideas <= limits.ideas_per_day
               /\ (MonthOf(now) = 0 /\ limits.ideas_per_month # Unlimited) =>
                     usage[user_id].monthly_ideas <= limits.ideas_per_month

\* ------------------------------------------------------------------------
\* C29: a POST /api request answered 429 or 403 increments no counter of
\* any user and appends nothing to any history; a request is counted only
\* after it passed the quota check and the template, language and custom
\* prompt checks and obtained the completion stream, and it is counted
\* once: the step that tracks it adds one to the three counters of its
\* user, appends one event and answers it, after which it takes no step.
\* ------------------------------------------------------------------------
NotYetTracked ==
    [total_ideas |-> 0, daily_ideas |-> 0, monthly_ideas |-> 0, history |-> <<>>]

UsageOf(tracked, user_id) ==
    IF user_id \in DOMAIN tracked THEN tracked[user_id] ELSE NotYetTracked

\* this step raised a counter of the user or changed the user's history
Counted(user_id) ==
    LET before == UsageOf(usage, user_id)
        after == UsageOf(usage', user_id)
    IN  \/ after.total_ideas > before.total_ideas
        \/ after.daily_ideas > before.daily_ideas
        \/ after.monthly_ideas > before.monthly_ideas
        \/ after.history # before.history

\* this step is the tracking of the request, which held the stream
TracksRequest(request) ==
    /\ BagIn(request, requests)
    /\ request.pc = "streaming"
    /\ requests' = Handled(request, Answered(request, 200))

CountedExactlyOnce(request) ==
    LET before == UsageOf(usage, request.user_id)
        after == UsageOf(usage', request.user_id)
    IN  /\ after.total_ideas = before.total_ideas + 1
        /\ after.daily_ideas >= 1
        /\ after.daily_ideas <= before.daily_ideas + 1
        /\ after.monthly_ideas >= 1
        /\ after.monthly_ideas <= before.monthly_ideas + 1
        /\ after.history =
              Append(before.history, [template |-> request.template,
                                      language |-> request.language])
        /\ \A other \in UserIds \ {request.user_id} : ~Counted(other)

\* the request holds the stream or was answered 200: the three checks of
\* lines 135-154 let it through
PassedChecks(request) ==
    LET tier_limits == get_tier_limits(request.subscription_plan)
    IN  /\ \/ tier_limits.template_access.all
           \/ request.template \in tier_limits.template_access.keys
        /\ \/ /\ tier_limits.languages.all
              /\ request.language \in SUPPORTED_LANGUAGES
           \/ /\ ~tier_limits.languages.all
              /\ request.language \in tier_limits.languages.keys
        /\ request.custom_prompt => tier_limits.custom_prompts

\* how a handler moves: the stream is obtained only after the quota check
\* let the request through, the quota check lets it through only under the
\* limits, and an answered request stays as it is
HandlerOrder ==
    \A request \in BagToSet(requests') :
        /\ (request.pc = "streaming"
               /\ CopiesIn(request, requests') > CopiesIn(request, requests)) =>
              /\ BagIn([request EXCEPT !.pc = "checked"], requests)
              /\ PassedChecks(request)
        /\ (request.pc = "checked"
               /\ CopiesIn(request, requests') > CopiesIn(request, requests)) =>
              /\ BagIn([request EXCEPT !.pc = "received"], requests)
              /\ can_generate_idea(request.subscription_plan,
                                   usage'[request.user_id].daily_ideas,
                                   usage'[request.user_id].monthly_ideas).can_generate
        /\ (request.pc = "answered" /\ request.status_code = 200
               /\ CopiesIn(request, requests') > CopiesIn(request, requests)) =>
              /\ TracksRequest([request EXCEPT !.pc = "streaming", !.status_code = 0])
              /\ PassedChecks(request)
              /\ CountedExactlyOnce(request)

AnsweredStay ==
    \A request \in BagToSet(requests) :
        request.pc = "answered" =>
            CopiesIn(request, requests') >= CopiesIn(request, requests)

OnlyTrackedRequestsCount ==
    /\ \A user_id \in UserIds :
          Counted(user_id) =>
             \E request \in BagToSet(requests) :
                /\ request.user_id = user_id
                /\ TracksRequest(request)
    /\ HandlerOrder
    /\ AnsweredStay

C29_OnlyPassingRequestsAreCounted == [][OnlyTrackedRequestsCount]_vars

\* one request was refused for the exhausted quota after three of the same
\* user were counted
C29_Witness ==
    /\ \E request \in BagToSet(requests) :
          /\ request.pc = "answered"
          /\ request.status_code = 429
          /\ request.user_id \in DOMAIN usage
          /\ usage[request.user_id].total_ideas = 3
    /\ \E request \in BagToSet(requests) :
          /\ request.pc = "answered"
          /\ request.status_code = 200

====
